---- MODULE Spec2Model ----
(***************************************************************************)
(* A model of the kilo text editor (src/unnamed/part_001, the complete     *)
(* snapshot of kilo.c): the row store with its render buffers, the cursor  *)
(* and viewport, the editing operations, the incremental search, the line  *)
(* prompt and the quit guard.                                              *)
(*                                                                         *)
(* Bytes and keys are integers, as in the C source (char / int).  Rows,    *)
(* columns and cursor coordinates are 0-based as in the source; TLA+       *)
(* sequences are 1-based, so byte j of a row is chars[j + 1].              *)
(***************************************************************************)
EXTENDS Integers, Sequences, FiniteSets, TLC

(***************************************************************************)
(* Program constants                                                       *)
(***************************************************************************)
KILO_TAB_STOP == 8
KILO_QUIT_TIMES == 3

TAB == 9
SPACE == 32
ENTER == 13
ESC == 27
BACKSPACE == 127
CTRL_F == 6
CTRL_H == 8
CTRL_L == 12
CTRL_Q == 17
CTRL_S == 19
ARROW_LEFT == 1000
ARROW_RIGHT == 1001
ARROW_UP == 1002
ARROW_DOWN == 1003
DEL_KEY == 1004
HOME_KEY == 1005
END_KEY == 1006
PAGE_UP == 1007
PAGE_DOWN == 1008
LF == 10
\* the bytes editorReadKey compares the escape sequences with
CH_LBRACKET == 91
CH_O == 79
CH_TILDE == 126
CH_0 == 48
CH_1 == 49
CH_3 == 51
CH_4 == 52
CH_5 == 53
CH_6 == 54
CH_7 == 55
CH_8 == 56
CH_9 == 57
CH_A == 65
CH_B == 66
CH_C == 67
CH_D == 68
CH_F == 70
CH_H == 72
CR == 13
CH_a == 97
NO_MATCH == -1

(***************************************************************************)
(* Bounds of the model                                                     *)
(***************************************************************************)
\* most bytes the text of a document holds: the bytes of its rows and one
\* newline for each row (the length editorRowsToString returns)
MaxText == 4
\* most lines of the files PageSpec opens: a screen of two rows pages over
\* a row between the cursor and the destination
MaxPageRows == 4
\* largest value the dirty counter takes
MaxDirty == 3
\* most bytes typed into a prompt
MaxBuf == 1
\* most bytes of the line RowSpec makes a row of
MaxRow == 8
\* the sizes <<screenrows, screencols>> the terminal leaves for text: small
\* enough for the documents of the model to scroll both ways, two rows for
\* the page keys to move twice
WindowSizes == {<<2, 1>>}

\* the bytes that are typed into the document: a letter and a tab
Chars == {CH_a, TAB}

\* the key events editorReadKey delivers
Keys ==
  Chars \cup {ENTER, ESC, BACKSPACE, CTRL_F, CTRL_H, CTRL_L, CTRL_Q, CTRL_S,
              ARROW_LEFT, ARROW_RIGHT, ARROW_UP, ARROW_DOWN, DEL_KEY,
              HOME_KEY, END_KEY, PAGE_UP, PAGE_DOWN}

\* the key events typed while a prompt is open: the keys editorPrompt and
\* editorFindCallback tell apart, and one of the keys they do not (Ctrl-L)
PromptKeys ==
  {c \in Chars : c >= SPACE} \cup
  {ENTER, ESC, BACKSPACE, CTRL_H, DEL_KEY, CTRL_L,
   ARROW_LEFT, ARROW_RIGHT, ARROW_UP, ARROW_DOWN}

\* iscntrl() of the C locale, on the keys of the model
iscntrl(c) == (0 <= c /\ c < 32) \/ c = 127

\* what a call iscntrl(c) can return: the C standard defines it for the
\* values of unsigned char only
IscntrlResults(c) == IF 0 <= c /\ c <= 255 THEN {iscntrl(c)} ELSE BOOLEAN

\* the int a char converts to; whether char is signed is the build's choice
CharToInt(b, signed) == IF signed /\ b >= 128 THEN b - 256 ELSE b

\* the byte an int is stored as in a char (buf[buflen++] = c)
IntToChar(c) == c % 256

\* the key events editorReadKey delivers for a byte above 127
HighKeys == {CharToInt(200, signed) : signed \in BOOLEAN}

\* a NULL char pointer (E.filename, the prompt's return value)
NULL == << >>

(***************************************************************************)
(* Row operations.  A row is the record erow: size and chars (the content, *)
(* exactly size bytes), rsize and render (the tab-expanded form).          *)
(***************************************************************************)
\* mutant of CxToRxLoop: a tab is KILO_TAB_STOP columns wide wherever it
\* stands
RECURSIVE CxToRxLoop_wide(_, _, _, _)
CxToRxLoop_wide(row, cx, j, rx) ==
  IF j < cx
  THEN LET rx1 == IF row.chars[j + 1] = TAB
                  THEN rx + (KILO_TAB_STOP - 1)
                  ELSE rx
       IN CxToRxLoop_wide(row, cx, j + 1, rx1 + 1)
  ELSE rx

RECURSIVE CxToRxLoop(_, _, _, _)
CxToRxLoop(row, cx, j, rx) ==
  IF j < cx
  THEN LET rx1 == IF row.chars[j + 1] = TAB
                  THEN rx + (KILO_TAB_STOP - 1) - (rx % KILO_TAB_STOP)
                  ELSE rx
       IN CxToRxLoop(row, cx, j + 1, rx1 + 1)
  ELSE rx

editorRowCxToRx(row, cx) == CxToRxLoop(row, cx, 0, 0)

RECURSIVE RxToCxLoop(_, _, _, _)
RxToCxLoop(row, rx, cx, cur_rx) ==
  IF cx < row.size
  THEN LET r1 == IF row.chars[cx + 1] = TAB
                 THEN cur_rx + (KILO_TAB_STOP - 1) - (cur_rx % KILO_TAB_STOP)
                 ELSE cur_rx
           r2 == r1 + 1
       IN IF r2 > rx THEN cx ELSE RxToCxLoop(row, rx, cx + 1, r2)
  ELSE cx

\* mutant of editorRowRxToCx: the test cur_rx > rx reads cur_rx >= rx
RECURSIVE RxToCxLoop_ge(_, _, _, _)
RxToCxLoop_ge(row, rx, cx, cur_rx) ==
  IF cx < row.size
  THEN LET r1 == IF row.chars[cx + 1] = TAB
                 THEN cur_rx + (KILO_TAB_STOP - 1) - (cur_rx % KILO_TAB_STOP)
                 ELSE cur_rx
           r2 == r1 + 1
       IN IF r2 >= rx THEN cx ELSE RxToCxLoop_ge(row, rx, cx + 1, r2)
  ELSE cx
editorRowRxToCx_ge(row, rx) == RxToCxLoop_ge(row, rx, 0, 0)

\* mutant of editorRowRxToCx: the index after the byte that holds column rx
editorRowRxToCx_next(row, rx) ==
  LET cx == RxToCxLoop(row, rx, 0, 0)
  IN IF cx < row.size THEN cx + 1 ELSE cx

editorRowRxToCx(row, rx) == RxToCxLoop(row, rx, 0, 0)

\* the inner while loop of editorUpdateRow: pad with spaces up to a tab stop
RECURSIVE PadToTabStop(_)
PadToTabStop(render) ==
  IF Len(render) % KILO_TAB_STOP # 0
  THEN PadToTabStop(Append(render, SPACE))
  ELSE render

\* mutant of UpdateRowLoop: a tab becomes KILO_TAB_STOP spaces wherever it
\* stands
RECURSIVE UpdateRowLoop_fixed(_, _, _)
UpdateRowLoop_fixed(row, j, render) ==
  IF j < row.size
  THEN IF row.chars[j + 1] = TAB
       THEN UpdateRowLoop_fixed(row, j + 1,
                                render \o [i \in 1..KILO_TAB_STOP |-> SPACE])
       ELSE UpdateRowLoop_fixed(row, j + 1, Append(render, row.chars[j + 1]))
  ELSE render

RECURSIVE UpdateRowLoop(_, _, _)
UpdateRowLoop(row, j, render) ==
  IF j < row.size
  THEN IF row.chars[j + 1] = TAB
       THEN UpdateRowLoop(row, j + 1, PadToTabStop(Append(render, SPACE)))
       ELSE UpdateRowLoop(row, j + 1, Append(render, row.chars[j + 1]))
  ELSE render

editorUpdateRow(row) ==
  LET render == UpdateRowLoop(row, 0, << >>)
  IN [row EXCEPT !.render = render, !.rsize = Len(render)]

\* memmove of the row array: the rows from index at on move up by one
InsertAt(rows, at, r) ==
  SubSeq(rows, 1, at) \o <<r>> \o SubSeq(rows, at + 1, Len(rows))

\* memmove of the row array: the rows after index at move down by one
RemoveAt(rows, at) ==
  SubSeq(rows, 1, at) \o SubSeq(rows, at + 2, Len(rows))

editorInsertRow(e, at, s) ==
  IF at < 0 \/ at > e.numrows
  THEN e
  ELSE LET new == editorUpdateRow(
                    [size |-> Len(s), chars |-> s, rsize |-> 0, render |-> << >>])
       IN [e EXCEPT !.row = InsertAt(e.row, at, new),
                    !.numrows = e.numrows + 1,
                    !.dirty = e.dirty + 1]

editorDelRow(e, at) ==
  IF at < 0 \/ at >= e.numrows
  THEN e
  ELSE [e EXCEPT !.row = RemoveAt(e.row, at),
                 !.numrows = e.numrows - 1,
                 !.dirty = e.dirty + 1]

\* mutant of editorRowInsertChar: the byte is always appended to the row
editorRowInsertChar_append(e, r, at, c) ==
  LET row == e.row[r + 1]
      new == [row EXCEPT !.chars = Append(row.chars, c), !.size = row.size + 1]
  IN [e EXCEPT !.row[r + 1] = editorUpdateRow(new), !.dirty = e.dirty + 1]

\* row r of the document gets byte c at index at
editorRowInsertChar(e, r, at, c) ==
  LET row == e.row[r + 1]
      at1 == IF at < 0 \/ at > row.size THEN row.size ELSE at
      new == [row EXCEPT !.chars = SubSeq(row.chars, 1, at1) \o <<c>>
                                     \o SubSeq(row.chars, at1 + 1, row.size),
                         !.size = row.size + 1]
  IN [e EXCEPT !.row[r + 1] = editorUpdateRow(new), !.dirty = e.dirty + 1]

\* mutant of editorRowAppendString: the call of editorUpdateRow is missing
editorRowAppendString_stale(e, r, s) ==
  LET row == e.row[r + 1]
      new == [row EXCEPT !.chars = row.chars \o s, !.size = row.size + Len(s)]
  IN [e EXCEPT !.row[r + 1] = new, !.dirty = e.dirty + 1]

editorRowAppendString(e, r, s) ==
  LET row == e.row[r + 1]
      new == [row EXCEPT !.chars = row.chars \o s, !.size = row.size + Len(s)]
  IN [e EXCEPT !.row[r + 1] = editorUpdateRow(new), !.dirty = e.dirty + 1]

\* mutant of editorRowDelChar: E.dirty++ is missing
editorRowDelChar_nodirty(e, r, at) ==
  LET row == e.row[r + 1]
  IN IF at < 0 \/ at >= row.size
     THEN e
     ELSE LET new == [row EXCEPT !.chars = SubSeq(row.chars, 1, at)
                                     \o SubSeq(row.chars, at + 2, row.size),
                                 !.size = row.size - 1]
          IN [e EXCEPT !.row[r + 1] = editorUpdateRow(new)]

editorRowDelChar(e, r, at) ==
  LET row == e.row[r + 1]
  IN IF at < 0 \/ at >= row.size
     THEN e
     ELSE LET new == [row EXCEPT !.chars = SubSeq(row.chars, 1, at)
                                     \o SubSeq(row.chars, at + 2, row.size),
                                 !.size = row.size - 1]
          IN [e EXCEPT !.row[r + 1] = editorUpdateRow(new),
                       !.dirty = e.dirty + 1]

(***************************************************************************)
(* Editor operations                                                       *)
(***************************************************************************)
editorInsertChar(e, c) ==
  LET e1 == IF e.cy = e.numrows THEN editorInsertRow(e, e.numrows, << >>) ELSE e
      e2 == editorRowInsertChar(e1, e1.cy, e1.cx, c)
  IN [e2 EXCEPT !.cx = e2.cx + 1]

\* mutant of editorInsertNewline: at cx = 0 the empty row goes below the
\* row of the cursor
editorInsertNewline_below(e) ==
  LET e3 == IF e.cx = 0
            THEN editorInsertRow(e, e.cy + 1, << >>)
            ELSE LET row == e.row[e.cy + 1]
                     e1 == editorInsertRow(e, e.cy + 1,
                                           SubSeq(row.chars, e.cx + 1, row.size))
                     cut == [e1.row[e.cy + 1] EXCEPT
                               !.size = e.cx,
                               !.chars = SubSeq(row.chars, 1, e.cx)]
                 IN [e1 EXCEPT !.row[e.cy + 1] = editorUpdateRow(cut)]
  IN [e3 EXCEPT !.cy = e.cy + 1, !.cx = 0]

editorInsertNewline(e) ==
  LET e3 == IF e.cx = 0
            THEN editorInsertRow(e, e.cy, << >>)
            ELSE LET row == e.row[e.cy + 1]
                     e1 == editorInsertRow(e, e.cy + 1,
                                           SubSeq(row.chars, e.cx + 1, row.size))
                     cut == [e1.row[e.cy + 1] EXCEPT
                               !.size = e.cx,
                               !.chars = SubSeq(row.chars, 1, e.cx)]
                 IN [e1 EXCEPT !.row[e.cy + 1] = editorUpdateRow(cut)]
  IN [e3 EXCEPT !.cy = e.cy + 1, !.cx = 0]

\* mutant of editorDelChar: joining two rows leaves cx at 0 instead of at
\* the end of the upper row
editorDelChar_nojump(e) ==
  IF e.cy = e.numrows THEN e
  ELSE IF e.cx = 0 /\ e.cy = 0 THEN e
  ELSE IF e.cx > 0
       THEN LET e1 == editorRowDelChar(e, e.cy, e.cx - 1)
            IN [e1 EXCEPT !.cx = e.cx - 1]
       ELSE LET row == e.row[e.cy + 1]
                e2 == editorRowAppendString(e, e.cy - 1, row.chars)
                e3 == editorDelRow(e2, e.cy)
            IN [e3 EXCEPT !.cy = e.cy - 1]

\* mutant of editorDelChar: the byte under the cursor is removed, not the
\* byte to its left
editorDelChar_under(e) ==
  IF e.cy = e.numrows THEN e
  ELSE IF e.cx = 0 /\ e.cy = 0 THEN e
  ELSE IF e.cx > 0
       THEN LET e1 == editorRowDelChar(e, e.cy, e.cx)
            IN [e1 EXCEPT !.cx = e.cx - 1]
       ELSE LET row == e.row[e.cy + 1]
                e1 == [e EXCEPT !.cx = e.row[e.cy].size]
                e2 == editorRowAppendString(e1, e.cy - 1, row.chars)
                e3 == editorDelRow(e2, e.cy)
            IN [e3 EXCEPT !.cy = e.cy - 1]

\* mutant of editorDelChar: on the line after the last row the cursor
\* steps back to the end of the last row
editorDelChar_back(e) ==
  IF e.cy = e.numrows
  THEN IF e.numrows > 0
       THEN [e EXCEPT !.cy = e.numrows - 1, !.cx = e.row[e.numrows].size]
       ELSE e
  ELSE IF e.cx = 0 /\ e.cy = 0 THEN e
  ELSE IF e.cx > 0
       THEN LET e1 == editorRowDelChar(e, e.cy, e.cx - 1)
            IN [e1 EXCEPT !.cx = e.cx - 1]
       ELSE LET row == e.row[e.cy + 1]
                e1 == [e EXCEPT !.cx = e.row[e.cy].size]
                e2 == editorRowAppendString(e1, e.cy - 1, row.chars)
                e3 == editorDelRow(e2, e.cy)
            IN [e3 EXCEPT !.cy = e.cy - 1]

\* mutant of editorDelChar: after a join the cursor stays on the row index
\* it had
editorDelChar_stay(e) ==
  IF e.cy = e.numrows THEN e
  ELSE IF e.cx = 0 /\ e.cy = 0 THEN e
  ELSE IF e.cx > 0
       THEN LET e1 == editorRowDelChar(e, e.cy, e.cx - 1)
            IN [e1 EXCEPT !.cx = e.cx - 1]
       ELSE LET row == e.row[e.cy + 1]
                e1 == [e EXCEPT !.cx = e.row[e.cy].size]
                e2 == editorRowAppendString(e1, e.cy - 1, row.chars)
            IN editorDelRow(e2, e.cy)

editorDelChar(e) ==
  IF e.cy = e.numrows THEN e
  ELSE IF e.cx = 0 /\ e.cy = 0 THEN e
  ELSE IF e.cx > 0
       THEN LET e1 == editorRowDelChar(e, e.cy, e.cx - 1)
            IN [e1 EXCEPT !.cx = e.cx - 1]
       ELSE LET row == e.row[e.cy + 1]
                e1 == [e EXCEPT !.cx = e.row[e.cy].size]
                e2 == editorRowAppendString(e1, e.cy - 1, row.chars)
                e3 == editorDelRow(e2, e.cy)
            IN [e3 EXCEPT !.cy = e.cy - 1]

(***************************************************************************)
(* File i/o                                                                *)
(***************************************************************************)
\* the first loop of editorRowsToString: totlen += E.row[j].size + 1
RECURSIVE TotlenLoop(_, _, _)
TotlenLoop(e, j, totlen) ==
  IF j < e.numrows
  THEN TotlenLoop(e, j + 1, totlen + e.row[j + 1].size + 1)
  ELSE totlen

\* mutant of RowsToStringLoop: no newline is put after the last row
RECURSIVE RowsToStringLoop_nolast(_, _, _)
RowsToStringLoop_nolast(e, j, buf) ==
  IF j < e.numrows
  THEN RowsToStringLoop_nolast(e, j + 1,
         buf \o e.row[j + 1].chars
             \o (IF j + 1 < e.numrows THEN <<LF>> ELSE << >>))
  ELSE buf

\* the second loop of editorRowsToString: memcpy of the row, then '\n'
RECURSIVE RowsToStringLoop(_, _, _)
RowsToStringLoop(e, j, buf) ==
  IF j < e.numrows
  THEN RowsToStringLoop(e, j + 1, buf \o e.row[j + 1].chars \o <<LF>>)
  ELSE buf

\* editorRowsToString: the length left in *buflen and the buffer returned
editorRowsToString(e) ==
  [buflen |-> TotlenLoop(e, 0, 0), buf |-> RowsToStringLoop(e, 0, << >>)]

\* the inner loop of editorOpen: drop the trailing CR and LF bytes of a line
RECURSIVE StripLine(_)
StripLine(line) ==
  IF Len(line) > 0 /\ (line[Len(line)] = CR \/ line[Len(line)] = LF)
  THEN StripLine(SubSeq(line, 1, Len(line) - 1))
  ELSE line

RECURSIVE OpenLoop(_, _, _)
OpenLoop(e, lines, i) ==
  IF i <= Len(lines)
  THEN OpenLoop(editorInsertRow(e, e.numrows, StripLine(lines[i])), lines, i + 1)
  ELSE e

\* editorOpen when fopen succeeds (it dies when fopen fails)
editorOpen(e, filename, lines) ==
  LET e1 == OpenLoop([e EXCEPT !.filename = filename], lines, 1)
  IN [e1 EXCEPT !.dirty = 0]

\* what open, ftruncate and write do in editorSave: all succeed, or the
\* one named is the first to fail (write fails when it does not return len)
SaveOutcomes == {"ok", "open", "ftruncate", "write"}

\* what editorSave leaves when it wrote nothing and e is as it was
NoSave(e) ==
  [E |-> e, statusmsg |-> "", wrote |-> "nothing", buflen |-> -1,
   buf |-> << >>]

\* mutant of editorSaveWrite: dirty is set to 0 once the file is open
editorSaveWrite_clean(e, outcome) ==
  LET text == editorRowsToString(e)
      r == [NoSave(e) EXCEPT !.buflen = text.buflen, !.buf = text.buf]
  IN IF outcome = "ok"
     THEN [r EXCEPT !.E = [e EXCEPT !.dirty = 0], !.wrote = "all",
                    !.statusmsg = "%d bytes written to disk"]
     ELSE [r EXCEPT !.E = IF outcome = "open" THEN e
                          ELSE [e EXCEPT !.dirty = 0],
                    !.wrote = IF outcome = "write" THEN "part" ELSE "nothing",
                    !.statusmsg = "Can't save! I/O error: %s"]

\* the part of editorSave after the file name is known: the state it
\* leaves, the status message it sets, how much of the text it wrote to
\* the file, and the length and the buffer editorRowsToString gave it
editorSaveWrite(e, outcome) ==
  LET text == editorRowsToString(e)
      r == [NoSave(e) EXCEPT !.buflen = text.buflen, !.buf = text.buf]
  IN IF outcome = "ok"
     THEN [r EXCEPT !.E = [e EXCEPT !.dirty = 0], !.wrote = "all",
                    !.statusmsg = "%d bytes written to disk"]
     ELSE [r EXCEPT !.wrote = IF outcome = "write" THEN "part" ELSE "nothing",
                    !.statusmsg = "Can't save! I/O error: %s"]

\* editorSave when E.filename is NULL and editorPrompt returned name
editorSave(e, name, outcome) ==
  IF name = NULL
  THEN [NoSave(e) EXCEPT !.statusmsg = "Save aborted"]
  ELSE editorSaveWrite([e EXCEPT !.filename = name], outcome)

(***************************************************************************)
(* Find                                                                    *)
(***************************************************************************)
\* strstr(haystack, needle): the offset of the first occurrence, or NO_MATCH
\* (the rows of the model hold no NUL byte, so the C strings are the rows)
strstr(haystack, needle) ==
  LET offs == {o \in 0..(Len(haystack) - Len(needle)) :
                 SubSeq(haystack, o + 1, o + Len(needle)) = needle}
  IN IF offs = {} THEN NO_MATCH
     ELSE CHOOSE o \in offs : \A o2 \in offs : o <= o2

\* mutant of FindLoop: E.cy follows the loop to every row it visits
RECURSIVE FindLoop_drift(_, _, _, _)
FindLoop_drift(s, query, i, current) ==
  IF i < s.E.numrows
  THEN LET c1 == current + s.direction
           c2 == IF c1 = -1 THEN s.E.numrows - 1
                 ELSE IF c1 = s.E.numrows THEN 0 ELSE c1
           row == s.E.row[c2 + 1]
           match == strstr(row.render, query)
           s1 == [s EXCEPT !.E.cy = c2]
       IN IF match # NO_MATCH
          THEN [s1 EXCEPT !.last_match = c2,
                          !.visits = i + 1,
                          !.E = [s1.E EXCEPT !.cx = editorRowRxToCx(row, match),
                                             !.rowoff = s.E.numrows]]
          ELSE FindLoop_drift(s1, query, i + 1, c2)
  ELSE [s EXCEPT !.visits = i]

\* mutant of FindLoop: a match counts as a change of the document
RECURSIVE FindLoop_mark(_, _, _, _)
FindLoop_mark(s, query, i, current) ==
  IF i < s.E.numrows
  THEN LET c1 == current + s.direction
           c2 == IF c1 = -1 THEN s.E.numrows - 1
                 ELSE IF c1 = s.E.numrows THEN 0 ELSE c1
           row == s.E.row[c2 + 1]
           match == strstr(row.render, query)
       IN IF match # NO_MATCH
          THEN [s EXCEPT !.last_match = c2,
                         !.visits = i + 1,
                         !.E = [s.E EXCEPT !.cy = c2,
                                           !.cx = editorRowRxToCx(row, match),
                                           !.rowoff = s.E.numrows,
                                           !.dirty = s.E.dirty + 1]]
          ELSE FindLoop_mark(s, query, i + 1, c2)
  ELSE [s EXCEPT !.visits = i]

\* mutant of FindLoop: a match leaves rowoff as it is
RECURSIVE FindLoop_still(_, _, _, _)
FindLoop_still(s, query, i, current) ==
  IF i < s.E.numrows
  THEN LET c1 == current + s.direction
           c2 == IF c1 = -1 THEN s.E.numrows - 1
                 ELSE IF c1 = s.E.numrows THEN 0 ELSE c1
           row == s.E.row[c2 + 1]
           match == strstr(row.render, query)
       IN IF match # NO_MATCH
          THEN [s EXCEPT !.last_match = c2,
                         !.visits = i + 1,
                         !.E = [s.E EXCEPT !.cy = c2,
                                           !.cx = editorRowRxToCx(row, match)]]
          ELSE FindLoop_still(s, query, i + 1, c2)
  ELSE [s EXCEPT !.visits = i]

\* the for loop of editorFindCallback; s holds E, the two statics and the
\* number of rows the loop has looked at
RECURSIVE FindLoop(_, _, _, _)
FindLoop(s, query, i, current) ==
  IF i < s.E.numrows
  THEN LET c1 == current + s.direction
           c2 == IF c1 = -1 THEN s.E.numrows - 1
                 ELSE IF c1 = s.E.numrows THEN 0 ELSE c1
           row == s.E.row[c2 + 1]
           match == strstr(row.render, query)
       IN IF match # NO_MATCH
          THEN [s EXCEPT !.last_match = c2,
                         !.visits = i + 1,
                         !.E = [s.E EXCEPT !.cy = c2,
                                           !.cx = editorRowRxToCx(row, match),
                                           !.rowoff = s.E.numrows]]
          ELSE FindLoop(s, query, i + 1, c2)
  ELSE [s EXCEPT !.visits = i]

\* mutant of editorFindCallback: Enter and Escape leave the statics alone
editorFindCallback_sticky(s, query, key) ==
  IF key = ENTER \/ key = ESC
  THEN s
  ELSE LET s1 == IF key = ARROW_RIGHT \/ ARROW_DOWN # 0
                 THEN [s EXCEPT !.direction = 1]
                 ELSE IF key = ARROW_LEFT \/ key = ARROW_UP
                 THEN [s EXCEPT !.direction = -1]
                 ELSE [s EXCEPT !.last_match = -1, !.direction = 1]
           s2 == IF s1.last_match = -1 THEN [s1 EXCEPT !.direction = 1] ELSE s1
       IN FindLoop(s2, query, 0, s2.last_match)

\* mutant of editorFindCallback: the arrow keys drop the anchor as the other
\* keys do
editorFindCallback_restart(s, query, key) ==
  IF key = ENTER \/ key = ESC
  THEN [s EXCEPT !.last_match = -1, !.direction = 1]
  ELSE LET s1 == [s EXCEPT !.last_match = -1, !.direction = 1]
       IN FindLoop(s1, query, 0, s1.last_match)

\* s = [E, last_match, direction, visits]: the editor state, the statics of
\* the callback and the rows its loop visits.  In the source the second test reads
\* (key == ARROW_RIGHT || ARROW_DOWN), and ARROW_DOWN is the non-zero 1003.
editorFindCallback(s, query, key) ==
  IF key = ENTER \/ key = ESC
  THEN [s EXCEPT !.last_match = -1, !.direction = 1]
  ELSE LET s1 == IF key = ARROW_RIGHT \/ ARROW_DOWN # 0
                 THEN [s EXCEPT !.direction = 1]
                 ELSE IF key = ARROW_LEFT \/ key = ARROW_UP
                 THEN [s EXCEPT !.direction = -1]
                 ELSE [s EXCEPT !.last_match = -1, !.direction = 1]
           s2 == IF s1.last_match = -1 THEN [s1 EXCEPT !.direction = 1] ELSE s1
       IN FindLoop(s2, query, 0, s2.last_match)

(***************************************************************************)
(* Output                                                                  *)
(***************************************************************************)
\* mutant of editorScroll: scrolling down leaves the cursor one row below
\* the window (the + 1 is missing)
editorScroll_below(e) ==
  LET rx == IF e.cy < e.numrows
            THEN editorRowCxToRx(e.row[e.cy + 1], e.cx)
            ELSE 0
      ro1 == IF e.cy < e.rowoff THEN e.cy ELSE e.rowoff
      ro2 == IF e.cy >= ro1 + e.screenrows THEN e.cy - e.screenrows ELSE ro1
      co1 == IF rx < e.coloff THEN rx ELSE e.coloff
      co2 == IF rx >= co1 + e.screencols THEN rx - e.screencols + 1 ELSE co1
  IN [e EXCEPT !.rx = rx, !.rowoff = ro2, !.coloff = co2]

editorScroll(e) ==
  LET rx == IF e.cy < e.numrows
            THEN editorRowCxToRx(e.row[e.cy + 1], e.cx)
            ELSE 0
      ro1 == IF e.cy < e.rowoff THEN e.cy ELSE e.rowoff
      ro2 == IF e.cy >= ro1 + e.screenrows THEN e.cy - e.screenrows + 1 ELSE ro1
      co1 == IF rx < e.coloff THEN rx ELSE e.coloff
      co2 == IF rx >= co1 + e.screencols THEN rx - e.screencols + 1 ELSE co1
  IN [e EXCEPT !.rx = rx, !.rowoff = ro2, !.coloff = co2]

(***************************************************************************)
(* Input                                                                   *)
(***************************************************************************)
\* mutant of editorMoveCursor: cx is not snapped to the length of the new row
editorMoveCursor_nosnap(e, key) ==
  LET hasrow == e.cy < e.numrows
  IN CASE key = ARROW_LEFT ->
            IF e.cx # 0 THEN [e EXCEPT !.cx = e.cx - 1]
            ELSE IF e.cy > 0
                 THEN [e EXCEPT !.cy = e.cy - 1, !.cx = e.row[e.cy].size]
                 ELSE e
       [] key = ARROW_RIGHT ->
            IF hasrow /\ e.cx < e.row[e.cy + 1].size
            THEN [e EXCEPT !.cx = e.cx + 1]
            ELSE IF hasrow /\ e.cx = e.row[e.cy + 1].size
                 THEN [e EXCEPT !.cy = e.cy + 1, !.cx = 0]
                 ELSE e
       [] key = ARROW_UP ->
            IF e.cy # 0 THEN [e EXCEPT !.cy = e.cy - 1] ELSE e
       [] key = ARROW_DOWN ->
            IF e.cy < e.numrows THEN [e EXCEPT !.cy = e.cy + 1] ELSE e
       [] OTHER -> e

\* the end of editorMoveCursor: cx is cut to the length of the row cy
SnapCx(e) ==
  LET rowlen == IF e.cy >= e.numrows THEN 0 ELSE e.row[e.cy + 1].size
  IN IF e.cx > rowlen THEN [e EXCEPT !.cx = rowlen] ELSE e

\* mutant of editorMoveCursor: ARROW_LEFT at the start of a row stays there
editorMoveCursor_nowrap(e, key) ==
  IF key = ARROW_LEFT /\ e.cx = 0
  THEN e
  ELSE SnapCx(editorMoveCursor_nosnap(e, key))

\* mutant of editorMoveCursor: ARROW_UP does not go onto row 0
editorMoveCursor_stuck(e, key) ==
  IF key = ARROW_UP /\ e.cy = 1
  THEN e
  ELSE SnapCx(editorMoveCursor_nosnap(e, key))

editorMoveCursor(e, key) ==
  LET hasrow == e.cy < e.numrows
      e1 == CASE key = ARROW_LEFT ->
                   IF e.cx # 0 THEN [e EXCEPT !.cx = e.cx - 1]
                   ELSE IF e.cy > 0
                        THEN [e EXCEPT !.cy = e.cy - 1,
                                       !.cx = e.row[e.cy].size]
                        ELSE e
              [] key = ARROW_RIGHT ->
                   IF hasrow /\ e.cx < e.row[e.cy + 1].size
                   THEN [e EXCEPT !.cx = e.cx + 1]
                   ELSE IF hasrow /\ e.cx = e.row[e.cy + 1].size
                        THEN [e EXCEPT !.cy = e.cy + 1, !.cx = 0]
                        ELSE e
              [] key = ARROW_UP ->
                   IF e.cy # 0 THEN [e EXCEPT !.cy = e.cy - 1] ELSE e
              [] key = ARROW_DOWN ->
                   IF e.cy < e.numrows THEN [e EXCEPT !.cy = e.cy + 1] ELSE e
              [] OTHER -> e
      rowlen == IF e1.cy >= e1.numrows THEN 0 ELSE e1.row[e1.cy + 1].size
  IN IF e1.cx > rowlen THEN [e1 EXCEPT !.cx = rowlen] ELSE e1

\* mutant of PageLoop: one move of times lines
PageLoop_jump(e, key, times) ==
  LET cy1 == IF key = ARROW_UP
             THEN (IF e.cy - times > 0 THEN e.cy - times ELSE 0)
             ELSE (IF e.cy + times < e.numrows THEN e.cy + times
                   ELSE e.numrows)
  IN SnapCx([e EXCEPT !.cy = cy1])

\* the while (times--) loop of the PAGE_UP / PAGE_DOWN case
RECURSIVE PageLoop(_, _, _)
PageLoop(e, key, times) ==
  IF times # 0
  THEN PageLoop(editorMoveCursor(e, key), key, times - 1)
  ELSE e

\* mutant of PageKey: the window is moved to the row the cursor ends on
PageKey_scroll(e, c) ==
  LET e1 == IF c = PAGE_UP
            THEN [e EXCEPT !.cy = e.rowoff]
            ELSE LET cy1 == e.rowoff + e.screenrows - 1
                 IN [e EXCEPT !.cy = IF cy1 > e.numrows THEN e.numrows ELSE cy1]
      e2 == PageLoop(e1, IF c = PAGE_UP THEN ARROW_UP ELSE ARROW_DOWN,
                     e.screenrows)
  IN [e2 EXCEPT !.rowoff = e2.cy]

\* the PAGE_UP / PAGE_DOWN case of editorProcessKeypress
PageKey(e, c) ==
  LET e1 == IF c = PAGE_UP
            THEN [e EXCEPT !.cy = e.rowoff]
            ELSE LET cy1 == e.rowoff + e.screenrows - 1
                 IN [e EXCEPT !.cy = IF cy1 > e.numrows THEN e.numrows ELSE cy1]
  IN PageLoop(e1, IF c = PAGE_UP THEN ARROW_UP ELSE ARROW_DOWN, e.screenrows)

\* the END_KEY case of editorProcessKeypress
EndKey(e) ==
  IF e.cy < e.numrows THEN [e EXCEPT !.cx = e.row[e.cy + 1].size] ELSE e

\* the BACKSPACE / CTRL_KEY('h') / DEL_KEY case of editorProcessKeypress
DeleteKey(e, c) ==
  editorDelChar(IF c = DEL_KEY THEN editorMoveCursor(e, ARROW_RIGHT) ELSE e)

(***************************************************************************)
(* State                                                                   *)
(***************************************************************************)
VARIABLES
  E,           \* struct editorConfig E (without the status message text)
  quit_times,  \* static of editorProcessKeypress
  last_match,  \* static of editorFindCallback
  direction,   \* static of editorFindCallback
  pc,          \* "start", "refresh" (before editorRefreshScreen), "read"
               \* (blocked in editorReadKey) or "exited"; in RowSpec "row"
               \* (before editorInsertRow), "rowdone", "found" (after
               \* editorRowRxToCx) and "scrolled" (after editorScroll)
  prompt,      \* which loop reads the keys: "none" (main), "find" or "save"
               \* (editorPrompt called by editorFind / editorSave)
  buf,         \* the buffer of the running editorPrompt
  saved,       \* saved_cx, saved_cy, saved_coloff, saved_rowoff of editorFind
  lastKey,     \* history: the key editorProcessKeypress read since the last
               \* refresh, if any (the keys editorPrompt reads are not kept)
  prev,        \* history: the key, rows and cursor of the last insert-char or
               \* insert-newline, kept until the key after it is handled;
               \* undo tells that this next key was a delete-char
  qrun,        \* history: quit requests handled in a row, up to now
  mutated,     \* history: the rows changed since startup, load or save
  readpc,      \* where editorReadKey is: "idle" (not called), "first" (in
               \* its while loop), "seq0", "seq1", "seq2" (before the read
               \* into seq[0], seq[1], seq[2]), "done" or "died"
  reads,       \* what the read() calls of this editorReadKey returned, from
               \* the read that gave c on
  readKey,     \* the value editorReadKey returned
  term         \* the mode of the terminal: "orig" (as the editor found it)
               \* or "raw"

vars == <<E, quit_times, last_match, direction, pc, prompt, buf, saved,
          lastKey, prev, qrun, mutated, readpc, reads, readKey, term>>

\* editorReadKey is not looked into: the key it returns is given
NoRead == UNCHANGED <<readpc, reads, readKey>>

\* disableRawMode, when its tcsetattr succeeds: the terminal is given
\* E.orig_termios
disableRawMode(t) == "orig"

\* exit(): the handler enableRawMode registered with atexit runs
exit(t) == disableRawMode(t)

\* die(s): the screen is cleared, perror(s), exit(1)
die(t) == exit(t)

NO_KEY == 0

\* the bytes of all rows
RECURSIVE TextLen(_)
TextLen(rows) ==
  IF rows = << >> THEN 0 ELSE Head(rows).size + TextLen(Tail(rows))

(***************************************************************************)
(* The frame.  The output is a sequence of bytes; every allocation         *)
(* succeeds, as in the rest of the model, so abAppend always appends.      *)
(***************************************************************************)
\* the string literals of the output functions
HIDE_CURSOR == <<ESC, CH_LBRACKET, 63, 50, 53, 108>>    \* "\x1b[?25l"
SHOW_CURSOR == <<ESC, CH_LBRACKET, 63, 50, 53, 104>>    \* "\x1b[?25h"
CURSOR_HOME == <<ESC, CH_LBRACKET, CH_H>>               \* "\x1b[H"
ERASE_LINE == <<ESC, CH_LBRACKET, 75>>                  \* "\x1b[K"
INVERT_ON == <<ESC, CH_LBRACKET, CH_7, 109>>            \* "\x1b[7m"
INVERT_OFF == <<ESC, CH_LBRACKET, 109>>                 \* "\x1b[m"
CRLF == <<CR, LF>>                                      \* "\r\n"
\* "Kilo editor -- version %s" with KILO_VERSION "0.0.1"
WELCOME ==
  <<75, 105, 108, 111, 32, 101,
    100, 105, 116, 111, 114, 32, 45, 45, 32,
    118, 101, 114, 115, 105, 111, 110, 32, 48, 46, 48, 46, 49>>
NO_NAME == <<91, 78, 111, 32, 78, 97, 109, 101, 93>>    \* "[No Name]"
MODIFIED == <<40, 109, 111, 100, 105, 102, 105, 101, 100, 41>>    \* "(modified)"

\* n bytes ' '
Spaces(n) == [i \in 1..n |-> SPACE]

\* %d of printf
RECURSIVE Digits(_)
Digits(n) ==
  IF n < 10 THEN <<CH_0 + n>> ELSE Digits(n \div 10) \o <<CH_0 + (n % 10)>>
DecStr(n) == IF n < 0 THEN <<45>> \o Digits(0 - n) ELSE Digits(n)

\* abAppend(ab, s, len)
abAppend(ab, s, len) == ab \o SubSeq(s, 1, len)

\* the welcome line of editorDrawRows
DrawWelcome(e, ab) ==
  LET len == IF Len(WELCOME) > e.screencols THEN e.screencols
             ELSE Len(WELCOME)
      padding == (e.screencols - len) \div 2
      ab1 == IF padding # 0
             THEN abAppend(abAppend(ab, <<CH_TILDE>>, 1),
                           Spaces(padding - 1), padding - 1)
             ELSE ab
  IN abAppend(ab1, WELCOME, len)

\* the part of a row in the window
DrawFileRow(e, filerow, ab) ==
  LET row == e.row[filerow + 1]
      len0 == row.rsize - e.coloff
      len == IF len0 < 0 THEN 0
             ELSE IF len0 > e.screencols THEN e.screencols ELSE len0
  IN abAppend(ab, SubSeq(row.render, e.coloff + 1, row.rsize), len)

\* the for loop of editorDrawRows, from y on
RECURSIVE DrawRowsLoop(_, _, _)
DrawRowsLoop(e, y, ab) ==
  IF y < e.screenrows
  THEN LET filerow == y + e.rowoff
           ab1 == IF filerow >= e.numrows
                  THEN IF e.numrows = 0 /\ y = e.screenrows \div 3
                       THEN DrawWelcome(e, ab)
                       ELSE abAppend(ab, <<CH_TILDE>>, 1)
                  ELSE DrawFileRow(e, filerow, ab)
           ab2 == abAppend(ab1, ERASE_LINE, 3)
       IN DrawRowsLoop(e, y + 1, abAppend(ab2, CRLF, 2))
  ELSE ab

\* mutant of editorDrawRows: the line of the last screen row is left out
editorDrawRows_short(e, ab) == DrawRowsLoop(e, 1, ab)

editorDrawRows(e, ab) == DrawRowsLoop(e, 0, ab)

\* the while loop of editorDrawStatusBar
RECURSIVE StatusPad(_, _, _, _)
StatusPad(e, len, rstatus, ab) ==
  IF len < e.screencols
  THEN IF e.screencols - len = Len(rstatus)
       THEN abAppend(ab, rstatus, Len(rstatus))
       ELSE StatusPad(e, len + 1, rstatus, abAppend(ab, <<SPACE>>, 1))
  ELSE ab

editorDrawStatusBar(e, ab) ==
  LET name == IF e.filename # NULL THEN e.filename ELSE NO_NAME
      name20 == IF Len(name) > 20 THEN SubSeq(name, 1, 20) ELSE name
      \* "%.20s - %d lines %s"
      status == name20 \o <<SPACE, 45, SPACE>> \o DecStr(e.numrows)
                  \o <<SPACE, 108, 105, 110, 101, 115, SPACE>>
                  \o (IF e.dirty # 0 THEN MODIFIED ELSE << >>)
      \* "%d/%d"
      rstatus == DecStr(e.cy) \o <<47>> \o DecStr(e.numrows - 1)
      len == IF Len(status) > e.screencols THEN e.screencols ELSE Len(status)
      ab1 == abAppend(abAppend(ab, INVERT_ON, 4), status, len)
      ab2 == StatusPad(e, len, rstatus, ab1)
  IN abAppend(abAppend(ab2, INVERT_OFF, 3), CRLF, 2)

\* statusmsg is E.statusmsg; fresh tells whether it was set less than five
\* seconds ago
editorDrawMessageBar(e, statusmsg, fresh, ab) ==
  LET ab1 == abAppend(ab, ERASE_LINE, 3)
      msglen == IF Len(statusmsg) > e.screencols THEN e.screencols
                ELSE Len(statusmsg)
  IN IF msglen # 0 /\ fresh THEN abAppend(ab1, statusmsg, msglen) ELSE ab1

\* editorRefreshScreen after its editorScroll, on the state e that
\* editorScroll left: the write() calls it makes, each with its bytes
editorRefreshScreen(e, statusmsg, fresh) ==
  LET ab1 == abAppend(<< >>, HIDE_CURSOR, 6)
      ab2 == abAppend(ab1, CURSOR_HOME, 3)
      ab3 == editorDrawRows(e, ab2)
      ab4 == editorDrawStatusBar(e, ab3)
      ab5 == editorDrawMessageBar(e, statusmsg, fresh, ab4)
      \* "\x1b[%d;%dH"
      pos == <<ESC, CH_LBRACKET>> \o DecStr(e.cy - e.rowoff + 1) \o <<59>>
               \o DecStr(e.rx - e.coloff + 1) \o <<CH_H>>
      ab6 == abAppend(ab5, pos, Len(pos))
      ab7 == abAppend(ab6, SHOW_CURSOR, 6)
  IN <<ab7>>

\* the bounds of the model, as a guard on the state a key leads to
InBounds(e) ==
  /\ TextLen(e.row) + e.numrows <= MaxText
  /\ e.dirty <= MaxDirty

NoPrev ==
  [key |-> NO_KEY, undo |-> FALSE, row |-> << >>, cx |-> 0, cy |-> 0,
   match |-> -1, buflen |-> -1, buf |-> << >>, calls |-> << >>,
   ret |-> NULL, writes |-> << >>, statusmsg |-> "", wrote |-> "nothing",
   rx |-> -1]

\* history: prev after editorSave left r
PrevSaved(r) ==
  [NoPrev EXCEPT !.buflen = r.buflen, !.buf = r.buf,
                 !.statusmsg = r.statusmsg, !.wrote = r.wrote]

\* history: prev after key c was handled in the main loop
PrevAfter(c, inserts) ==
  IF inserts
  THEN [NoPrev EXCEPT !.key = c, !.row = E.row, !.cx = E.cx, !.cy = E.cy]
  ELSE IF c \in {BACKSPACE, CTRL_H} /\ prev.key # NO_KEY /\ ~prev.undo
  THEN [prev EXCEPT !.undo = TRUE, !.writes = << >>]
  ELSE NoPrev

\* initEditor, with the window size the terminal reports
initEditor(rows, cols) ==
  [cx |-> 0, cy |-> 0, rx |-> 0, rowoff |-> 0, coloff |-> 0, numrows |-> 0,
   dirty |-> 0, row |-> << >>, filename |-> NULL,
   screenrows |-> rows, screencols |-> cols]

\* the statics and the history when main() has called initEditor
InitOther ==
  /\ quit_times = KILO_QUIT_TIMES
  /\ last_match = -1
  /\ direction = 1
  /\ prompt = "none"
  /\ saved = [cx |-> 0, cy |-> 0, coloff |-> 0, rowoff |-> 0]
  /\ lastKey = NO_KEY
  /\ prev = NoPrev
  /\ qrun = 0
  /\ mutated = FALSE
  /\ readpc = "idle"
  /\ reads = << >>
  /\ readKey = NO_KEY
  /\ term = "raw"

\* the state when main() has called initEditor, the window being one of
\* sizes
InitIn(sizes) ==
  /\ \E ws \in sizes : E = initEditor(ws[1], ws[2])
  /\ pc = "start"
  /\ buf = << >>
  /\ InitOther

Init == InitIn(WindowSizes)

\* the contents of a line of a file, and the files main() may be given
Contents(n) == UNION {[1..k -> Chars] : k \in 0..n}
\* the files of at most n bytes, each line with its newline
RECURSIVE FilesUpTo(_)
FilesUpTo(n) ==
  {<< >>} \cup
  UNION {{<<c>> \o f : f \in FilesUpTo(n - Len(c) - 1)} : c \in Contents(n - 1)}
Files == FilesUpTo(MaxText)
\* the line terminators getline() leaves on a line
Terminators == {<<LF>>, <<CR, LF>>}
FILE_NAME == <<CH_a>>

(***************************************************************************)
(* main(): startup                                                         *)
(***************************************************************************)
\* argc >= 2 and fopen succeeds
Open ==
  /\ NoRead
  /\ UNCHANGED term
  /\ pc = "start"
  /\ \E f \in Files, t \in Terminators :
       E' = editorOpen(E, FILE_NAME, [i \in 1..Len(f) |-> f[i] \o t])
  /\ pc' = "refresh"
  /\ mutated' = FALSE
  /\ UNCHANGED <<quit_times, last_match, direction, prompt, buf, saved,
                 lastKey, prev, qrun>>

\* argc >= 2 and fopen fails: editorOpen calls die()
OpenFail ==
  /\ NoRead
  /\ pc = "start"
  /\ pc' = "exited"
  /\ term' = die(term)
  /\ E' = [E EXCEPT !.filename = FILE_NAME]
  /\ UNCHANGED <<quit_times, last_match, direction, prompt, buf, saved,
                 lastKey, prev, qrun, mutated>>

\* argc < 2
NoFile ==
  /\ NoRead
  /\ UNCHANGED term
  /\ pc = "start"
  /\ pc' = "refresh"
  /\ UNCHANGED <<E, quit_times, last_match, direction, prompt, buf, saved,
                 lastKey, prev, qrun, mutated>>

\* the status messages a frame is drawn with: none, and texts one byte
\* and six bytes long
StatusMsgs == {<< >>, <<CH_H>>, <<CH_H, CH_a, CH_a, CH_a, CH_a, CH_a>>}

\* a loop that refreshes the screen twice before it reads the next key
RefreshStep_twice(keep) ==
  /\ NoRead
  /\ UNCHANGED term
  /\ pc = "refresh"
  /\ E' = editorScroll(E)
  /\ pc' = "read"
  /\ lastKey' = NO_KEY
  /\ IF keep
     THEN \E statusmsg \in StatusMsgs, fresh \in BOOLEAN :
            prev' = [prev EXCEPT !.writes =
                       editorRefreshScreen(editorScroll(E), statusmsg, fresh)
                       \o editorRefreshScreen(editorScroll(E), statusmsg,
                                              fresh)]
     ELSE UNCHANGED prev
  /\ UNCHANGED <<quit_times, last_match, direction, prompt, buf, saved,
                 qrun, mutated>>

\* editorRefreshScreen, in the main loop and in the loop of editorPrompt;
\* with keep, for the status message and the clock of the moment, and
\* prev keeps the writes
RefreshStep(keep) ==
  /\ NoRead
  /\ UNCHANGED term
  /\ pc = "refresh"
  /\ E' = editorScroll(E)
  /\ pc' = "read"
  /\ lastKey' = NO_KEY
  /\ IF keep
     THEN \E statusmsg \in StatusMsgs, fresh \in BOOLEAN :
            prev' = [prev EXCEPT !.writes =
                       editorRefreshScreen(editorScroll(E), statusmsg, fresh)]
     ELSE UNCHANGED prev
  /\ UNCHANGED <<quit_times, last_match, direction, prompt, buf, saved,
                 qrun, mutated>>

Refresh == RefreshStep(FALSE)
FrameRefresh == RefreshStep(TRUE)

(***************************************************************************)
(* editorProcessKeypress: one action per case of the switch.  c is the key *)
(* editorReadKey returned.                                                 *)
(***************************************************************************)
\* the keys with a case of their own
CaseKeys ==
  {ENTER, CTRL_Q, CTRL_S, HOME_KEY, END_KEY, CTRL_F, BACKSPACE, CTRL_H,
   DEL_KEY, PAGE_UP, PAGE_DOWN, ARROW_UP, ARROW_DOWN, ARROW_LEFT, ARROW_RIGHT,
   CTRL_L, ESC}

\* the main loop is blocked in the editorReadKey of editorProcessKeypress
InMain == pc = "read" /\ prompt = "none"

\* mutant of Done: quit_times is not set back to KILO_QUIT_TIMES
Done_noreset(c, e1) ==
  /\ NoRead
  /\ UNCHANGED term
  /\ InBounds(e1)
  /\ E' = e1
  /\ quit_times' = quit_times
  /\ pc' = "refresh"
  /\ lastKey' = c
  /\ prev' = PrevAfter(c, c = ENTER \/ c \notin CaseKeys)
  /\ qrun' = 0

\* the case of key c ran to the end of the switch and left e1 in E
Done(c, e1) ==
  /\ NoRead
  /\ UNCHANGED term
  /\ InBounds(e1)
  /\ E' = e1
  /\ quit_times' = KILO_QUIT_TIMES
  /\ pc' = "refresh"
  /\ lastKey' = c
  /\ prev' = PrevAfter(c, c = ENTER \/ c \notin CaseKeys)
  /\ qrun' = 0

\* the case CTRL_KEY('s') ran to the end of the switch: editorSave left r
DoneSave(r) ==
  /\ NoRead
  /\ UNCHANGED term
  /\ E' = r.E
  /\ quit_times' = KILO_QUIT_TIMES
  /\ pc' = "refresh"
  /\ lastKey' = CTRL_S
  /\ prev' = PrevSaved(r)
  /\ qrun' = 0

\* history: the rows changed in this step, or had changed before
Edited(e1) == mutated' = (mutated \/ e1.row # E.row)

\* mutant of QuitGuarded: the test E.dirty is missing
QuitGuarded_anyway(e, qt) == qt > 0

\* mutant of QuitGuarded: the test quit_times > 0 reads quit_times > 1
QuitGuarded_early(e, qt) == e.dirty # 0 /\ qt > 1

\* the test of the CTRL_KEY('q') case
QuitGuarded(e, qt) == e.dirty # 0 /\ qt > 0

KeyEnter ==
  /\ InMain
  /\ Done(ENTER, editorInsertNewline(E))
  /\ Edited(editorInsertNewline(E))
  /\ UNCHANGED <<last_match, direction, prompt, buf, saved>>

\* CTRL_KEY('q') on a document with unsaved changes: warn and return
KeyQuitWarn ==
  /\ NoRead
  /\ UNCHANGED term
  /\ InMain
  /\ QuitGuarded(E, quit_times)
  /\ quit_times' = quit_times - 1
  /\ pc' = "refresh"
  /\ lastKey' = CTRL_Q
  /\ prev' = NoPrev
  /\ qrun' = qrun + 1
  /\ UNCHANGED <<E, last_match, direction, prompt, buf, saved, mutated>>

\* CTRL_KEY('q') otherwise: exit(0)
KeyQuitExit ==
  /\ NoRead
  /\ InMain
  /\ ~QuitGuarded(E, quit_times)
  /\ pc' = "exited"
  /\ term' = exit(term)
  /\ lastKey' = CTRL_Q
  /\ prev' = NoPrev
  /\ qrun' = qrun + 1
  /\ UNCHANGED <<E, quit_times, last_match, direction, prompt, buf, saved,
                 mutated>>

\* CTRL_KEY('s') with a file name: editorSave writes the file, or fails to
KeySave ==
  /\ InMain
  /\ E.filename # NULL
  /\ \E outcome \in SaveOutcomes :
       /\ DoneSave(editorSaveWrite(E, outcome))
       /\ mutated' = IF outcome = "ok" THEN FALSE ELSE mutated
  /\ UNCHANGED <<last_match, direction, prompt, buf, saved>>

\* CTRL_KEY('s') without a file name: editorSave calls editorPrompt
KeySaveAs ==
  /\ NoRead
  /\ UNCHANGED term
  /\ InMain
  /\ E.filename = NULL
  /\ prompt' = "save"
  /\ buf' = << >>
  /\ pc' = "refresh"
  /\ lastKey' = CTRL_S
  /\ prev' = NoPrev
  /\ qrun' = 0
  /\ UNCHANGED <<E, quit_times, last_match, direction, saved, mutated>>

KeyHome ==
  /\ InMain
  /\ Done(HOME_KEY, [E EXCEPT !.cx = 0])
  /\ UNCHANGED <<last_match, direction, prompt, buf, saved, mutated>>

KeyEnd ==
  /\ InMain
  /\ Done(END_KEY, EndKey(E))
  /\ UNCHANGED <<last_match, direction, prompt, buf, saved, mutated>>

\* CTRL_KEY('f'): editorFind saves the cursor and calls editorPrompt
KeyFind ==
  /\ NoRead
  /\ UNCHANGED term
  /\ InMain
  /\ saved' = [cx |-> E.cx, cy |-> E.cy, coloff |-> E.coloff,
               rowoff |-> E.rowoff]
  /\ prompt' = "find"
  /\ buf' = << >>
  /\ pc' = "refresh"
  /\ lastKey' = CTRL_F
  /\ prev' = NoPrev
  /\ qrun' = 0
  /\ UNCHANGED <<E, quit_times, last_match, direction, mutated>>

KeyDelete ==
  /\ InMain
  /\ \E c \in {BACKSPACE, CTRL_H, DEL_KEY} :
       /\ Done(c, DeleteKey(E, c))
       /\ Edited(DeleteKey(E, c))
  /\ UNCHANGED <<last_match, direction, prompt, buf, saved>>

KeyPage ==
  /\ InMain
  /\ \E c \in {PAGE_UP, PAGE_DOWN} : Done(c, PageKey(E, c))
  /\ UNCHANGED <<last_match, direction, prompt, buf, saved, mutated>>

KeyArrow ==
  /\ InMain
  /\ \E c \in {ARROW_UP, ARROW_DOWN, ARROW_LEFT, ARROW_RIGHT} :
       Done(c, editorMoveCursor(E, c))
  /\ UNCHANGED <<last_match, direction, prompt, buf, saved, mutated>>

\* CTRL_KEY('l') and the escape key are ignored
KeyIgnored ==
  /\ InMain
  /\ \E c \in {CTRL_L, ESC} : Done(c, E)
  /\ UNCHANGED <<last_match, direction, prompt, buf, saved, mutated>>

\* default: the key is inserted as a byte
KeyInsert ==
  /\ InMain
  /\ \E c \in Keys \ CaseKeys :
       /\ Done(c, editorInsertChar(E, c))
       /\ Edited(editorInsertChar(E, c))
  /\ UNCHANGED <<last_match, direction, prompt, buf, saved>>

(***************************************************************************)
(* editorPrompt: one action per branch of its loop body.  The prompt of    *)
(* editorFind has the callback editorFindCallback, that of editorSave has  *)
(* none.                                                                   *)
(***************************************************************************)
\* editorPrompt is blocked in its editorReadKey
InPrompt == pc = "read" /\ prompt # "none"

\* if (callback) callback(buf, c), on the editor state and the statics
\* mutant of Callback: the callback is not called with the Enter key
Callback_noenter(query, c) ==
  LET s == [E |-> E, last_match |-> last_match, direction |-> direction,
            visits |-> 0, calls |-> << >>]
  IN IF prompt = "find" /\ c # ENTER
     THEN [editorFindCallback(s, query, c)
             EXCEPT !.calls = Append(@, <<query, c>>)]
     ELSE s

\* s.calls lists the calls made, each with its arguments
Callback(query, c) ==
  LET s == [E |-> E, last_match |-> last_match, direction |-> direction,
            visits |-> 0, calls |-> << >>]
  IN IF prompt = "find"
     THEN [editorFindCallback(s, query, c)
             EXCEPT !.calls = Append(@, <<query, c>>)]
     ELSE s

\* the key a step of editorPrompt leaves in lastKey: only FindSpec and
\* PromptSpec keep the keys of a prompt
Kept(c, keep) == IF keep THEN c ELSE NO_KEY

\* the keys typed into a prompt in PromptSpec: the keys of a byte above 127
\* too
TypedKeys == PromptKeys \cup HighKeys

\* the loop of editorPrompt goes round: the callback ran and left s; k is
\* the key kept in lastKey (NO_KEY for none)
PromptContinues(k, s) ==
  /\ NoRead
  /\ UNCHANGED term
  /\ E' = s.E
  /\ last_match' = s.last_match
  /\ direction' = s.direction
  /\ pc' = "refresh"
  /\ lastKey' = k
  /\ prev' = IF k = NO_KEY THEN NoPrev
             ELSE [NoPrev EXCEPT !.calls = s.calls]
  /\ qrun' = 0
  /\ UNCHANGED <<quit_times, prompt, saved, mutated>>

\* editorPrompt returned ret to editorFind or editorSave, which left r and
\* returned to editorProcessKeypress, which ran to the end of the switch;
\* with the key kept, prev keeps the cursor and the anchor the prompt ended
\* on, the calls of the callback and ret
PromptReturns(k, s, r, ret) ==
  /\ NoRead
  /\ UNCHANGED term
  /\ E' = r.E
  /\ last_match' = s.last_match
  /\ direction' = s.direction
  /\ quit_times' = KILO_QUIT_TIMES
  /\ prompt' = "none"
  /\ buf' = << >>
  /\ saved' = [cx |-> 0, cy |-> 0, coloff |-> 0, rowoff |-> 0]
  /\ pc' = "refresh"
  /\ lastKey' = k
  /\ prev' =
       LET p == PrevSaved(r)
       IN IF k = NO_KEY THEN p
          ELSE [p EXCEPT !.key = k, !.cx = E.cx, !.cy = E.cy,
                         !.match = last_match, !.calls = s.calls,
                         !.ret = ret]
  /\ qrun' = 0

\* mutant of FindRestore: the window offsets are not put back
FindRestore_cursor(e) == [e EXCEPT !.cx = saved.cx, !.cy = saved.cy]

\* the else branch of editorFind: the user pressed Esc
FindRestore(e) ==
  [e EXCEPT !.cx = saved.cx, !.cy = saved.cy, !.coloff = saved.coloff,
            !.rowoff = saved.rowoff]

DeleteStep(keep) ==
  /\ InPrompt
  /\ \E c \in {DEL_KEY, CTRL_H, BACKSPACE} :
       LET buf1 == IF Len(buf) # 0 THEN SubSeq(buf, 1, Len(buf) - 1) ELSE buf
       IN /\ buf' = buf1
          /\ PromptContinues(Kept(c, keep), Callback(buf1, c))

EscapeStep(keep) ==
  /\ InPrompt
  /\ LET s == Callback(buf, ESC)
     IN PromptReturns(Kept(ESC, keep), s,
                      IF prompt = "find" THEN NoSave(FindRestore(s.E))
                      ELSE editorSave(s.E, NULL, "ok"),
                      NULL)
  /\ UNCHANGED mutated

\* '\r' with a non-empty buffer: the prompt returns the buffer
EnterStep(keep) ==
  /\ InPrompt
  /\ Len(buf) # 0
  /\ LET s == Callback(buf, ENTER)
     IN IF prompt = "find"
        THEN PromptReturns(Kept(ENTER, keep), s, NoSave(s.E), buf)
             /\ UNCHANGED mutated
        ELSE \E outcome \in SaveOutcomes :
               /\ PromptReturns(Kept(ENTER, keep), s,
                                 editorSave(s.E, buf, outcome), buf)
               /\ mutated' = IF outcome = "ok" THEN FALSE ELSE mutated

\* '\r' with an empty buffer: nothing but the callback
EnterEmptyStep(keep) ==
  /\ InPrompt
  /\ Len(buf) = 0
  /\ PromptContinues(Kept(ENTER, keep), Callback(buf, ENTER))
  /\ UNCHANGED buf

\* the file names typed into the save prompt of Spec, where the document
\* is edited under every name: the name of the file main() opens.  The
\* prompts of PromptSpec take every name of up to MaxBuf bytes
SaveNames == {FILE_NAME}
NameTyped(keep, b) ==
  (prompt = "save" /\ ~keep) =>
    \E n \in SaveNames : Len(b) <= Len(n) /\ b = SubSeq(n, 1, Len(b))

\* a printable byte is appended to the buffer; keys are the keys typed
CharStep(keep, keys) ==
  /\ InPrompt
  /\ Len(buf) < MaxBuf
  /\ \E c \in keys \ {DEL_KEY, CTRL_H, BACKSPACE, ESC, ENTER} :
       /\ \E ctl \in IscntrlResults(c) : ~ctl /\ c < 128
       /\ NameTyped(keep, Append(buf, IntToChar(c)))
       /\ buf' = Append(buf, IntToChar(c))
       /\ PromptContinues(Kept(c, keep),
                          Callback(Append(buf, IntToChar(c)), c))

\* any other key: nothing but the callback
OtherStep(keep, keys) ==
  /\ InPrompt
  /\ \E c \in keys \ {DEL_KEY, CTRL_H, BACKSPACE, ESC, ENTER} :
       /\ \E ctl \in IscntrlResults(c) : ~(~ctl /\ c < 128)
       /\ PromptContinues(Kept(c, keep), Callback(buf, c))
  /\ UNCHANGED buf

\* the steps of editorPrompt in Spec
PromptDelete == DeleteStep(FALSE)
PromptEscape == EscapeStep(FALSE)
PromptEnter == EnterStep(FALSE)
PromptEnterEmpty == EnterEmptyStep(FALSE)
PromptChar == CharStep(FALSE, PromptKeys)
PromptOther == OtherStep(FALSE, PromptKeys)

\* the steps of editorPrompt in FindSpec, which keeps the key of each
FindDelete == DeleteStep(TRUE)
FindEscape == EscapeStep(TRUE)
FindEnter == EnterStep(TRUE)
FindEnterEmpty == EnterEmptyStep(TRUE)
FindChar == CharStep(TRUE, PromptKeys)
FindOther == OtherStep(TRUE, PromptKeys)

\* the two steps of PromptSpec that take the keys of a byte above 127
TypedChar == CharStep(TRUE, TypedKeys)
TypedOther == OtherStep(TRUE, TypedKeys)

Next ==
  \/ Open \/ OpenFail \/ NoFile \/ Refresh
  \/ KeyEnter \/ KeyQuitWarn \/ KeyQuitExit \/ KeySave \/ KeySaveAs
  \/ KeyHome \/ KeyEnd \/ KeyFind \/ KeyDelete \/ KeyPage \/ KeyArrow
  \/ KeyIgnored \/ KeyInsert
  \/ PromptDelete \/ PromptEscape \/ PromptEnter \/ PromptEnterEmpty
  \/ PromptChar \/ PromptOther

Spec == Init /\ [][Next]_vars

\* the keys that work on the rows: a document is loaded or not, then the
\* main loop with the keys that insert, split, delete and move, Ctrl-S on a
\* named file, and Ctrl-F with its prompt
KeysNext ==
  \/ Open \/ NoFile \/ Refresh
  \/ KeyEnter \/ KeySave \/ KeyHome \/ KeyEnd \/ KeyFind \/ KeyDelete
  \/ KeyPage \/ KeyArrow \/ KeyInsert
  \/ PromptDelete \/ PromptEscape \/ PromptEnter \/ PromptEnterEmpty
  \/ PromptChar \/ PromptOther

KeysSpec == Init /\ [][KeysNext]_vars

\* the search sessions alone: a document is loaded or not, the cursor is
\* moved by the arrow keys, Ctrl-F opens the search prompt, and every key of
\* the prompt is kept in lastKey
FindNext ==
  \/ Open \/ NoFile \/ Refresh \/ KeyArrow \/ KeyFind
  \/ FindDelete \/ FindEscape \/ FindEnter \/ FindEnterEmpty
  \/ FindChar \/ FindOther

FindSpec == Init /\ [][FindNext]_vars

\* the prompts alone: a document is loaded or not, Ctrl-F opens the search
\* prompt and Ctrl-S without a file name the save-as prompt, and every key
\* of a prompt is kept in lastKey
PromptNext ==
  \/ Open \/ NoFile \/ Refresh \/ KeyFind \/ KeySaveAs
  \/ FindDelete \/ FindEscape \/ FindEnter \/ FindEnterEmpty
  \/ TypedChar \/ TypedOther

PromptSpec == Init /\ [][PromptNext]_vars

\* the window sizes of FrameSpec: the small window, and one wide enough for
\* the welcome line and the whole status line
FrameSizes == WindowSizes \cup {<<3, 34>>}

\* the frames alone: a document is loaded or not, bytes are typed into it,
\* the cursor is moved by the arrow keys, and prev keeps what each refresh
\* writes
FrameNext ==
  \/ Open \/ NoFile \/ FrameRefresh \/ KeyArrow \/ KeyInsert

\* one row alone: a line of at most MaxRow bytes is in buf, and the row
\* made of it is put into the empty document
RowInit ==
  /\ \E ws \in WindowSizes : E = initEditor(ws[1], ws[2])
  /\ pc = "row"
  /\ buf \in Contents(MaxRow)
  /\ InitOther

\* editorInsertRow(E.numrows, buf, len), as editorOpen calls it
InsertLine ==
  /\ pc = "row"
  /\ E' = editorInsertRow(E, E.numrows, buf)
  /\ pc' = "rowdone"
  /\ UNCHANGED <<quit_times, last_match, direction, prompt, buf, saved,
                 lastKey, prev, qrun, mutated, readpc, reads, readKey, term>>

\* E.cx = editorRowRxToCx(row, rx), as editorFindCallback calls it; rx is
\* any column of the render and the two after it, and prev keeps it
ColumnToCursor ==
  /\ pc = "rowdone"
  /\ \E rx \in 0..(E.row[1].rsize + 1) :
       /\ E' = [E EXCEPT !.cx = editorRowRxToCx(E.row[1], rx)]
       /\ prev' = [prev EXCEPT !.rx = rx]
  /\ pc' = "found"
  /\ UNCHANGED <<quit_times, last_match, direction, prompt, buf, saved,
                 lastKey, qrun, mutated, readpc, reads, readKey, term>>

\* the cursor is at index cx of the row and editorScroll runs: E.rx =
\* editorRowCxToRx(row, E.cx)
CursorToColumn ==
  /\ pc = "rowdone"
  /\ \E cx \in 0..E.row[1].size : E' = editorScroll([E EXCEPT !.cx = cx])
  /\ pc' = "scrolled"
  /\ UNCHANGED <<quit_times, last_match, direction, prompt, buf, saved,
                 lastKey, prev, qrun, mutated, readpc, reads, readKey, term>>

RowNext == InsertLine \/ ColumnToCursor \/ CursorToColumn

RowSpec == RowInit /\ [][RowNext]_vars

FrameInit == InitIn(FrameSizes)
FrameSpec == FrameInit /\ [][FrameNext]_vars

\* the loops of main and of editorPrompt with every frame kept: a document
\* is loaded or not, the cursor is moved by the arrow keys, Ctrl-F opens
\* the search prompt and Ctrl-S without a file name the save-as prompt
CycleNext ==
  \/ Open \/ NoFile \/ FrameRefresh \/ KeyArrow \/ KeyFind \/ KeySaveAs
  \/ FindDelete \/ FindEscape \/ FindEnter \/ FindEnterEmpty
  \/ FindChar \/ FindOther

CycleSpec == Init /\ [][CycleNext]_vars

\* the cursor keys alone, on files of up to MaxPageRows lines.  The lines
\* are empty or one letter long; prev keeps where the cursor was
PageLines == {<< >>, <<CH_a>>}
PageFiles == UNION {[1..n -> PageLines] : n \in 0..MaxPageRows}

PageOpen ==
  /\ NoRead
  /\ UNCHANGED term
  /\ pc = "start"
  /\ \E f \in PageFiles :
       E' = editorOpen(E, FILE_NAME, [i \in 1..Len(f) |-> f[i] \o <<LF>>])
  /\ pc' = "refresh"
  /\ mutated' = FALSE
  /\ UNCHANGED <<quit_times, last_match, direction, prompt, buf, saved,
                 lastKey, prev, qrun>>

\* the case of cursor key c ran to the end of the switch and left e1 in E
Moved(c, e1) ==
  /\ NoRead
  /\ UNCHANGED term
  /\ E' = e1
  /\ quit_times' = KILO_QUIT_TIMES
  /\ pc' = "refresh"
  /\ lastKey' = c
  /\ prev' = [NoPrev EXCEPT !.key = c, !.cx = E.cx, !.cy = E.cy]
  /\ qrun' = 0
  /\ UNCHANGED <<last_match, direction, prompt, buf, saved, mutated>>

PageArrow ==
  /\ InMain
  /\ \E c \in {ARROW_UP, ARROW_DOWN, ARROW_LEFT, ARROW_RIGHT} :
       Moved(c, editorMoveCursor(E, c))

PagePage ==
  /\ InMain
  /\ \E c \in {PAGE_UP, PAGE_DOWN} : Moved(c, PageKey(E, c))

PageNext == PageOpen \/ Refresh \/ PageArrow \/ PagePage
PageSpec == Init /\ [][PageNext]_vars

(***************************************************************************)
(* editorReadKey: one action per read() call.  What a read() returns is    *)
(* chosen by the terminal: a byte, nothing within the timeout, or an       *)
(* error.                                                                  *)
(***************************************************************************)
\* bytes with no meaning of their own to editorReadKey: a letter, a control
\* byte, a letter that ends no sequence, and a byte above 127
OtherBytes == {CH_a, CTRL_Q, 120, 200}

\* the bytes the terminal sends
ReadBytes ==
  {ESC, CH_LBRACKET, CH_O, CH_TILDE, CH_A, CH_B, CH_C, CH_D, CH_F, CH_H}
    \cup (CH_0..CH_9) \cup OtherBytes

\* what read(STDIN_FILENO, &c, 1) returns: one byte, 0 after the timeout,
\* or -1 with errno set
Got(b) == [nread |-> 1, c |-> b, errno |-> "none"]
ShortReads ==
  {[nread |-> 0, c |-> 0, errno |-> "none"],
   [nread |-> -1, c |-> 0, errno |-> "EAGAIN"],
   [nread |-> -1, c |-> 0, errno |-> "EIO"]}
ReadResults == {Got(b) : b \in ReadBytes} \cup ShortReads


\* switch (seq[1]) of the sequences ESC [ digit ~
TildeKey(d) ==
  CASE d = CH_1 -> HOME_KEY
    [] d = CH_3 -> DEL_KEY
    [] d = CH_4 -> END_KEY
    [] d = CH_5 -> PAGE_UP
    [] d = CH_6 -> PAGE_DOWN
    [] d = CH_7 -> HOME_KEY
    [] d = CH_8 -> END_KEY
    [] OTHER -> ESC

\* mutant of BracketKey: the keys of C and D are exchanged
BracketKey_swapped(b) ==
  CASE b = CH_A -> ARROW_UP
    [] b = CH_B -> ARROW_DOWN
    [] b = CH_C -> ARROW_LEFT
    [] b = CH_D -> ARROW_RIGHT
    [] b = CH_H -> HOME_KEY
    [] b = CH_F -> END_KEY
    [] OTHER -> ESC

\* switch (seq[1]) of the sequences ESC [ letter
BracketKey(b) ==
  CASE b = CH_A -> ARROW_UP
    [] b = CH_B -> ARROW_DOWN
    [] b = CH_C -> ARROW_RIGHT
    [] b = CH_D -> ARROW_LEFT
    [] b = CH_H -> HOME_KEY
    [] b = CH_F -> END_KEY
    [] OTHER -> ESC

\* switch (seq[1]) of the sequences ESC O letter
OKey(b) ==
  CASE b = CH_H -> HOME_KEY
    [] b = CH_F -> END_KEY
    [] OTHER -> ESC

\* the test '0' <= seq[1] && seq[1] <= '9'
IsDigit(b) == CH_0 <= b /\ b <= CH_9

\* mutant of ThirdKey: the test seq[2] == '~' is missing
ThirdKey_anyend(d, r) == IF r.nread # 1 THEN ESC ELSE TildeKey(d)

\* the third read: if (seq[2] == '~') switch (seq[1])
ThirdKey(d, r) ==
  IF r.nread # 1 THEN ESC
  ELSE IF r.c = CH_TILDE THEN TildeKey(d) ELSE ESC

\* all but the three variables of editorReadKey
mainvars == <<E, quit_times, last_match, direction, pc, prompt, buf, saved,
              lastKey, prev, qrun, mutated, term>>

\* editorReadKey returns key
Returns(key) == readpc' = "done" /\ readKey' = key

\* the caller waits for a key: editorReadKey is called
ReadStart ==
  /\ pc = "read"
  /\ readpc \in {"idle", "done"}
  /\ readpc' = "first"
  /\ reads' = << >>
  /\ readKey' = NO_KEY
  /\ UNCHANGED mainvars

\* the while loop goes round: no byte yet (0, or -1 with EAGAIN)
ReadWait ==
  /\ readpc = "first"
  /\ \E r \in ShortReads : ~(r.nread = -1 /\ r.errno # "EAGAIN")
  /\ UNCHANGED <<readpc, reads, readKey>>
  /\ UNCHANGED mainvars

\* read fails in the while loop: die("read")
ReadDie ==
  /\ readpc = "first"
  /\ \E r \in ShortReads :
       /\ r.nread = -1 /\ r.errno # "EAGAIN"
       /\ reads' = <<r>>
  /\ readpc' = "died"
  /\ pc' = "exited"
  /\ term' = die(term)
  /\ UNCHANGED readKey
  /\ UNCHANGED <<E, quit_times, last_match, direction, prompt, buf, saved,
                 lastKey, prev, qrun, mutated>>

\* the while loop got a byte other than the escape byte: return c
ReadByte ==
  /\ readpc = "first"
  /\ \E b \in ReadBytes \ {ESC} : \E signed \in BOOLEAN :
       /\ reads' = <<Got(b)>>
       /\ Returns(CharToInt(b, signed))
  /\ UNCHANGED mainvars

\* the while loop got the escape byte
ReadEscape ==
  /\ readpc = "first"
  /\ reads' = <<Got(ESC)>>
  /\ readpc' = "seq0"
  /\ UNCHANGED readKey
  /\ UNCHANGED mainvars

\* read(STDIN_FILENO, &seq[0], 1)
ReadSeq0 ==
  /\ readpc = "seq0"
  /\ \E r \in ReadResults :
       /\ reads' = Append(reads, r)
       /\ IF r.nread # 1
          THEN Returns(ESC)
          ELSE readpc' = "seq1" /\ UNCHANGED readKey
  /\ UNCHANGED mainvars

\* read(STDIN_FILENO, &seq[1], 1) and the tests of seq[0] and seq[1]
ReadSeq1 ==
  /\ readpc = "seq1"
  /\ \E r \in ReadResults :
       /\ reads' = Append(reads, r)
       /\ IF r.nread # 1
          THEN Returns(ESC)
          ELSE IF reads[2].c = CH_LBRACKET
          THEN IF IsDigit(r.c)
               THEN readpc' = "seq2" /\ UNCHANGED readKey
               ELSE Returns(BracketKey(r.c))
          ELSE IF reads[2].c = CH_O
          THEN Returns(OKey(r.c))
          ELSE Returns(ESC)
  /\ UNCHANGED mainvars

\* mutant of ReadSeq2: after a byte that is not '~' one more byte is read
ReadSeq2_again ==
  /\ readpc = "seq2"
  /\ \E r \in ReadResults :
       /\ reads' = Append(reads, r)
       /\ IF r.nread = 1 /\ r.c # CH_TILDE
          THEN UNCHANGED <<readpc, readKey>>
          ELSE Returns(ThirdKey(reads[3].c, r))
  /\ UNCHANGED mainvars

\* read(STDIN_FILENO, &seq[2], 1) and the test of seq[2]
ReadSeq2 ==
  /\ readpc = "seq2"
  /\ \E r \in ReadResults :
       /\ reads' = Append(reads, r)
       /\ Returns(ThirdKey(reads[3].c, r))
  /\ UNCHANGED mainvars

\* editorReadKey alone: the editor starts without a file, draws the screen
\* and reads keys; the keys are not handled
ReadNext ==
  \/ NoFile \/ Refresh
  \/ ReadStart \/ ReadWait \/ ReadDie \/ ReadByte \/ ReadEscape
  \/ ReadSeq0 \/ ReadSeq1 \/ ReadSeq2

ReadSpec == Init /\ [][ReadNext]_vars

(***************************************************************************)
(* Properties                                                              *)
(***************************************************************************)
\* the tab expansion of a content, by the rule of the data model: a tab is
\* replaced by spaces up to the next multiple of the tab stop
RECURSIVE TabExpand(_, _)
TabExpand(chars, out) ==
  IF chars = << >> THEN out
  ELSE IF Head(chars) = TAB
  THEN TabExpand(Tail(chars),
         out \o [i \in 1..(KILO_TAB_STOP - (Len(out) % KILO_TAB_STOP)) |-> SPACE])
  ELSE TabExpand(Tail(chars), Append(out, Head(chars)))

\* the contents of the rows
ContentsOf(rows) == [i \in 1..Len(rows) |-> rows[i].chars]

\* C1: in every reachable state every row's render is the tab expansion of
\* its current content and rsize is the length of render (and size, numrows
\* are the lengths of the content and of the row array)
C1_RenderFresh ==
  /\ E.numrows = Len(E.row)
  /\ \A r \in 1..Len(E.row) :
       /\ E.row[r].size = Len(E.row[r].chars)
       /\ E.row[r].render = TabExpand(E.row[r].chars, << >>)
       /\ E.row[r].rsize = Len(E.row[r].render)

\* a row was split before a tab and merged again: the render of the merged
\* row holds the expansion of the tab
C1_Witness ==
  /\ prev.undo
  /\ prev.key = ENTER
  /\ E.cy < E.numrows
  /\ E.cx > 0
  /\ E.cx < E.row[E.cy + 1].size
  /\ E.row[E.cy + 1].chars[E.cx + 1] = TAB
  /\ E.row[E.cy + 1].rsize > E.row[E.cy + 1].size

\* C2: in every reachable state 0 <= cy <= numrows, 0 <= cx <= the length
\* of row cy when cy < numrows, and cx = 0 when cy = numrows
C2_CursorBounds ==
  /\ 0 <= E.cy /\ E.cy <= E.numrows
  /\ E.cy < E.numrows => (0 <= E.cx /\ E.cx <= E.row[E.cy + 1].size)
  /\ E.cy = E.numrows => E.cx = 0

\* a search has put the cursor inside a row, behind a tab
C2_Witness ==
  /\ prompt = "find"
  /\ last_match = E.cy
  /\ E.cy > 0
  /\ E.cx > 0
  /\ E.row[E.cy + 1].chars[1] = TAB

\* C3: right after editorScroll the cursor is inside the window, so the
\* cursor position written into the frame is in [1, screenrows] x
\* [1, screencols]
C3_ViewportGuarantee ==
  pc = "read" =>
    /\ E.rowoff <= E.cy /\ E.cy < E.rowoff + E.screenrows
    /\ E.coloff <= E.rx /\ E.rx < E.coloff + E.screencols
    /\ (E.cy - E.rowoff + 1) \in 1..E.screenrows
    /\ (E.rx - E.coloff + 1) \in 1..E.screencols

\* the refresh after a search match: the match had set rowoff to numrows,
\* and the window was scrolled both ways
C3_Witness ==
  /\ pc = "read"
  /\ prompt = "find"
  /\ last_match = E.cy
  /\ E.rowoff = E.cy
  /\ E.rowoff > 0
  /\ E.coloff > 0

\* the offset of the cursor in the text of the document
RECURSIVE OffsetLoop(_, _)
OffsetLoop(e, r) ==
  IF r < e.cy /\ r < e.numrows
  THEN e.row[r + 1].size + 1 + OffsetLoop(e, r + 1)
  ELSE 0
CursorOffset(e) == OffsetLoop(e, 0) + e.cx

\* text t with byte c inserted at offset p, and with the byte at p removed
TextInsert(t, p, c) == SubSeq(t, 1, p) \o <<c>> \o SubSeq(t, p + 1, Len(t))
TextRemove(t, p) == SubSeq(t, 1, p) \o SubSeq(t, p + 2, Len(t))

\* "line one", "line two" with their newlines, and "line one\nX\nline two\n"
LineOne == <<108, 105, 110, 101, 32, 111, 110, 101>>
LineTwo == <<108, 105, 110, 101, 32, 116, 119, 111>>
C4_EndToEnd ==
  LET e0 == editorOpen(initEditor(22, 80), FILE_NAME,
                       <<LineOne \o <<LF>>, LineTwo \o <<LF>>>>)
      e1 == EndKey(e0)
      e2 == editorInsertNewline(e1)
      e3 == editorInsertChar(e2, 88)
  IN editorRowsToString(e3).buf = LineOne \o <<LF, 88, LF>> \o LineTwo \o <<LF>>

\* C4: with the cursor on an existing row, at offset p of the text T of the
\* document, insert-char(c) gives T with c inserted at p, insert-newline
\* gives T with a newline inserted at p, delete-char with p > 0 gives T
\* without the byte at p - 1, and the cursor offset becomes p + 1, p + 1,
\* p - 1; and the end-to-end example gives "line one\nX\nline two\n"
C4_FlatStep ==
  (InMain /\ E.cy < E.numrows /\ lastKey' # NO_KEY) =>
    LET T == editorRowsToString(E).buf
        p == CursorOffset(E)
        T2 == editorRowsToString(E').buf
        p2 == CursorOffset(E')
    IN /\ lastKey' \notin CaseKeys =>
            T2 = TextInsert(T, p, lastKey') /\ p2 = p + 1
       /\ lastKey' = ENTER =>
            T2 = TextInsert(T, p, LF) /\ p2 = p + 1 /\ C4_EndToEnd
       /\ (lastKey' \in {BACKSPACE, CTRL_H} /\ p > 0) =>
            T2 = TextRemove(T, p - 1) /\ p2 = p - 1
C4_FlatText == [][C4_FlatStep]_vars

\* a row was split between two of its bytes
C4_Witness ==
  /\ pc = "refresh"
  /\ lastKey = ENTER
  /\ prev.cy < Len(prev.row)
  /\ prev.cx > 0
  /\ prev.cx < prev.row[prev.cy + 1].size
  /\ C4_EndToEnd

\* the key before the last was insert-char, the last was delete-char
InsertUndone == prev.undo /\ prev.key \notin CaseKeys
\* the key before the last was insert-newline, the last was delete-char
NewlineUndone == prev.undo /\ prev.key = ENTER

\* C5 as stated: delete-char right after insert-char restores the contents
\* of the rows and the cursor, from every cursor position, the virtual line
\* included
C5_Original ==
  InsertUndone =>
    /\ ContentsOf(E.row) = ContentsOf(prev.row)
    /\ E.cx = prev.cx /\ E.cy = prev.cy

\* C5 amended: delete-char right after insert-char restores the cursor; it
\* restores the rows when the cursor was on an existing row, and leaves one
\* more, empty, row at the end when the cursor was on the virtual line
C5_InsertDelete ==
  InsertUndone =>
    /\ E.cx = prev.cx /\ E.cy = prev.cy
    /\ prev.cy < Len(prev.row) => E.row = prev.row
    /\ prev.cy = Len(prev.row) =>
         ContentsOf(E.row) = Append(ContentsOf(prev.row), << >>)

\* insert-char behind a tab of an existing row, then delete-char
C5_Witness ==
  /\ InsertUndone
  /\ prev.cy < Len(prev.row)
  /\ prev.cx > 0
  /\ prev.row[prev.cy + 1].chars[prev.cx] = TAB

\* C6: insert-newline at cx = k of an existing row and then delete-char
\* restore the row, the number of rows, all other rows and the cursor
C6_SplitMerge ==
  (NewlineUndone /\ prev.cy < Len(prev.row)) =>
    /\ E.row = prev.row
    /\ E.numrows = Len(prev.row)
    /\ E.cx = prev.cx /\ E.cy = prev.cy

\* a row was split between two of its bytes and merged again
C6_Witness ==
  /\ NewlineUndone
  /\ prev.cy < Len(prev.row)
  /\ prev.cx > 0
  /\ prev.cx < prev.row[prev.cy + 1].size

\* C7: render-to-cursor(row, cursor-to-render(row, cx)) = cx for every row
\* and every cx from 0 to the length of the row
C7_RoundTrip ==
  \A r \in 1..Len(E.row) :
    \A cx \in 0..E.row[r].size :
      editorRowRxToCx(E.row[r], editorRowCxToRx(E.row[r], cx)) = cx

\* a row with a tab before another byte: the render column of the end of
\* the row is beyond its length
C7_Witness ==
  \E r \in 1..Len(E.row) :
    /\ E.row[r].size >= 2
    /\ E.row[r].chars[1] = TAB
    /\ E.row[r].chars[2] # TAB
    /\ editorRowCxToRx(E.row[r], E.row[r].size) > E.row[r].size
    /\ editorRowRxToCx(E.row[r], editorRowCxToRx(E.row[r], 1)) = 1

\* a step that ends a save that wrote the file: Ctrl-S with a file name, or
\* Enter in the save-as prompt
SaveStep ==
  \/ InMain /\ lastKey' = CTRL_S /\ prompt' = "none"
  \/ InPrompt /\ prompt = "save" /\ prompt' = "none" /\ E'.filename # NULL

\* C8: dirty > 0 exactly when the rows changed since startup or the last
\* successful load or save; a step that changes the rows increases dirty
\* (a load sets it to 0), a step that leaves the rows alone leaves dirty
\* alone, but for a save, which sets it to 0 or leaves it alone
C8_DirtyStep ==
  /\ (pc # "start" /\ E'.row # E.row) => E'.dirty > E.dirty
  /\ pc = "start" => E'.dirty = 0
  /\ (pc # "start" /\ E'.row = E.row /\ ~SaveStep) => E'.dirty = E.dirty
  /\ SaveStep => E'.dirty \in {0, E.dirty}
  /\ (E'.dirty > 0) <=> mutated'
C8_DirtyTracking == [][C8_DirtyStep]_vars

\* a delete key has changed the rows of a document that has a file name,
\* and dirty counts two changes
C8_Witness ==
  /\ pc = "refresh"
  /\ lastKey \in {BACKSPACE, CTRL_H, DEL_KEY}
  /\ E.dirty = 2
  /\ mutated
  /\ E.filename # NULL
  /\ E.numrows = 1

\* the editor exited on a quit request with unsaved changes
QuitDirty == pc = "exited" /\ lastKey = CTRL_Q /\ E.dirty # 0

\* C9 as stated: on a dirty document the quit proceeds on the third quit
\* request in a row (the first two never exit)
C9_Original == QuitDirty => qrun = KILO_QUIT_TIMES

\* C9 amended: on a dirty document the first three quit requests in a row
\* only warn and count the counter down from 3 to 0; the quit proceeds on
\* the fourth, which finds the counter at 0
C9_QuitCount ==
  /\ QuitDirty => (qrun = KILO_QUIT_TIMES + 1 /\ quit_times = 0)
  /\ (pc # "exited" /\ prompt = "none" /\ qrun > 0) =>
       (E.dirty # 0 /\ qrun <= KILO_QUIT_TIMES
          /\ quit_times = KILO_QUIT_TIMES - qrun)

C9_Witness == QuitDirty /\ qrun = KILO_QUIT_TIMES + 1 /\ E.numrows > 0

\* C10: when editorProcessKeypress has handled a key other than a quit
\* request (qrun = 0), the prompts of Ctrl-S and Ctrl-F included, the quit
\* counter is at the threshold 3; so the counter is below 3 only by the
\* quit requests made in a row since the last other key
C10_QuitReset ==
  (prompt = "none" /\ pc \in {"refresh", "read"}) =>
    /\ qrun = 0 => quit_times = KILO_QUIT_TIMES
    /\ quit_times = KILO_QUIT_TIMES - qrun

\* a key other than a quit request was handled on a dirty document
C10_Witness ==
  /\ prompt = "none"
  /\ pc = "refresh"
  /\ lastKey \in {ESC, CTRL_L, ARROW_LEFT}
  /\ E.dirty # 0
  /\ quit_times = KILO_QUIT_TIMES

\* C11: on a clean document (dirty = 0) a quit request exits at once: the
\* test of the quit case fails for every value of the counter, and the step
\* that reads Ctrl-Q is the exit, not the warning (which would count the
\* counter down and go on to the next refresh)
C11_Step ==
  (InMain /\ E.dirty = 0 /\ lastKey' = CTRL_Q) =>
    /\ \A qt \in 0..KILO_QUIT_TIMES : ~QuitGuarded(E, qt)
    /\ pc' = "exited"
    /\ quit_times' = quit_times
    /\ E' = E
C11_QuitClean == [][C11_Step]_vars

\* the editor exited on the first quit request, on a loaded document with
\* no unsaved change
C11_Witness ==
  /\ pc = "exited"
  /\ lastKey = CTRL_Q
  /\ qrun = 1
  /\ E.dirty = 0
  /\ E.numrows > 0
  /\ ~mutated
  /\ E.row[1].chars = <<CH_a, TAB>>

(***************************************************************************)
(* Search sessions (checked in FindSpec, where lastKey holds the key the  *)
(* prompt read last)                                                       *)
(***************************************************************************)
\* the render holds the query, and the offset of its first occurrence
Contains(render, query) ==
  \E o \in 0..(Len(render) - Len(query)) :
    SubSeq(render, o + 1, o + Len(query)) = query
FirstAt(render, query) ==
  CHOOSE o \in 0..(Len(render) - Len(query)) :
    /\ SubSeq(render, o + 1, o + Len(query)) = query
    /\ \A o2 \in 0..(o - 1) : SubSeq(render, o2 + 1, o2 + Len(query)) # query

\* the index in chars of the byte whose expansion covers column off of the
\* render (the length of the row when no byte does)
CursorAt(row, off) ==
  LET covers == {cx \in 0..(row.size - 1) :
                   /\ editorRowCxToRx(row, cx) <= off
                   /\ off < editorRowCxToRx(row, cx + 1)}
  IN IF covers = {} THEN row.size ELSE CHOOSE cx \in covers : TRUE

\* the first row after row m (before it, for d = -1), going round the
\* document and ending on m itself, whose render holds the query; NO_MATCH
\* when no row does.  m = -1 stands for no anchor: the rows from 0 on.
MatchFrom(rows, query, m, d) ==
  LET n == Len(rows)
      at(k) == (IF m = NO_MATCH /\ d = 1 THEN k - 1 ELSE m + n + d * k) % n
      ks == {k \in 1..n : Contains(rows[at(k) + 1].render, query)}
  IN IF ks = {} THEN NO_MATCH
     ELSE at(CHOOSE k \in ks : \A k2 \in ks : k <= k2)

\* the search prompt has just read key c
FindKey(c) == InPrompt /\ prompt = "find" /\ lastKey' = c

\* the cursor and the anchor are on the first occurrence of buf' in row m,
\* or where they were when m is NO_MATCH
OnMatch(m) ==
  IF m = NO_MATCH
  THEN last_match' = last_match /\ E'.cy = E.cy /\ E'.cx = E.cx
  ELSE /\ last_match' = m
       /\ E'.cy = m
       /\ E'.cx = CursorAt(E.row[m + 1], FirstAt(E.row[m + 1].render, buf'))

\* rows "abc", "xab", "ba" and the query "ab": three forward repeats from
\* no anchor give (row 0, col 0), (row 1, col 1) and row 0 again
C12_Example ==
  LET e0 == editorOpen(initEditor(22, 80), FILE_NAME,
                       <<(<<97, 98, 99, LF>>), (<<120, 97, 98, LF>>),
                         (<<98, 97, LF>>)>>)
      s0 == [E |-> e0, last_match |-> -1, direction |-> 1, visits |-> 0]
      s1 == editorFindCallback(s0, <<97, 98>>, ARROW_RIGHT)
      s2 == editorFindCallback(s1, <<97, 98>>, ARROW_DOWN)
      s3 == editorFindCallback(s2, <<97, 98>>, ARROW_RIGHT)
  IN /\ s1.E.cy = 0 /\ s1.E.cx = 0 /\ s1.last_match = 0
     /\ s2.E.cy = 1 /\ s2.E.cx = 1 /\ s2.last_match = 1
     /\ s3.E.cy = 0 /\ s3.E.cx = 0 /\ s3.last_match = 0

\* C12: in a search session a forward repeat (ArrowRight, ArrowDown) leaves
\* the query alone and moves the match to the next row after last_match, in
\* increasing row order with wrap from the last row to row 0, whose render
\* holds the query, with cx on the first occurrence in that row; and the
\* example of three repeats over "abc", "xab", "ba"
C12_Step ==
  (FindKey(ARROW_RIGHT) \/ FindKey(ARROW_DOWN)) =>
    /\ buf' = buf
    /\ OnMatch(MatchFrom(E.row, buf, last_match, 1))
    /\ C12_Example
C12_ForwardWrap == [][C12_Step]_vars

\* a forward repeat went from the last row round to row 0: both rows hold
\* the query, which was matched before the repeat
C12_Witness ==
  /\ prompt = "find"
  /\ lastKey \in {ARROW_RIGHT, ARROW_DOWN}
  /\ buf = <<CH_a>>
  /\ E.numrows = 2
  /\ \A r \in 1..2 : Contains(E.row[r].render, buf)
  /\ last_match = 0
  /\ E.cy = 0

\* C13: in a search session with a previous match at row m, ArrowLeft or
\* ArrowUp sets the direction to backward and moves the match to the nearest
\* row before m, with wrap from row 0 to the last row, whose render holds
\* the query
C13_Step ==
  ((FindKey(ARROW_LEFT) \/ FindKey(ARROW_UP)) /\ last_match # NO_MATCH) =>
    /\ direction' = -1
    /\ OnMatch(MatchFrom(E.row, buf, last_match, -1))
C13_Backward == [][C13_Step]_vars

\* C14: in a search session a key other than Enter, Escape and the four
\* arrows (a byte typed into the query, a delete key, Ctrl-L) drops the
\* anchor and sets the direction to forward, so the match is the first row
\* of the document, from row 0 on, whose render holds the new query; with no
\* such row the anchor stays dropped and the cursor stays
C14_Step ==
  (/\ InPrompt /\ prompt = "find"
   /\ lastKey' \notin {NO_KEY, ENTER, ESC, ARROW_LEFT, ARROW_RIGHT, ARROW_UP,
                       ARROW_DOWN}) =>
    LET m == MatchFrom(E.row, buf', NO_MATCH, 1)
    IN /\ direction' = 1
       /\ IF m = NO_MATCH
          THEN last_match' = NO_MATCH /\ E'.cy = E.cy /\ E'.cx = E.cx
          ELSE OnMatch(m)
C14_AnchorReset == [][C14_Step]_vars

\* no row of the document holds the query in its render
NoRowHolds(rows, query) ==
  \A r \in 1..Len(rows) : ~Contains(rows[r].render, query)

\* the loop of the match step, run on e from anchor m in direction d for a
\* query no row holds, visits at most numrows rows and changes nothing
LoopIdle(e, query, m, d) ==
  LET s == [E |-> e, last_match |-> m, direction |-> d, visits |-> 0]
      r == FindLoop(s, query, 0, m)
  IN r.visits <= e.numrows /\ r.last_match = m /\ r.E = e
     /\ r.direction = d

\* C15: when no row's render holds the query (also on an empty document)
\* the match step ends after at most numrows row visits and leaves
\* last_match, cx, cy and rowoff as they were: so for the loop run from
\* every anchor in either direction, and so for every key a search session
\* reads
C15_Step ==
  (/\ InPrompt /\ prompt = "find"
   /\ lastKey' \notin {NO_KEY, ENTER, ESC}
   /\ NoRowHolds(E.row, buf')) =>
    /\ \A m \in -1..(E.numrows - 1) :
         \A d \in (IF m = -1 THEN {1} ELSE {1, -1}) :
           LoopIdle(E, buf', m, d)
    /\ last_match' = last_match
    /\ E'.cx = E.cx /\ E'.cy = E.cy /\ E'.rowoff = E.rowoff
C15_NoMatch == [][C15_Step]_vars

\* a byte was typed into the query that no row of a document of two rows
\* holds, with the cursor on the second row
C15_Witness ==
  /\ prompt = "find"
  /\ lastKey = CH_a
  /\ buf = <<CH_a>>
  /\ E.numrows = 2
  /\ NoRowHolds(E.row, buf)
  /\ E.cy = 1
  /\ E.cx > 0

\* the cursor and the window offsets of e are those of v
ViewIs(e, v) ==
  e.cx = v.cx /\ e.cy = v.cy /\ e.rowoff = v.rowoff /\ e.coloff = v.coloff

\* C16: Ctrl-F leaves the view alone, the view it was invoked with is what
\* Escape restores (cx, cy, rowoff, coloff) after any keys and matches of the
\* session, and Enter leaves the cursor where the session put it, which is
\* the row of the last match
C16_Step ==
  /\ (InMain /\ lastKey' = CTRL_F) => (E' = E /\ ViewIs(E, saved'))
  /\ (InPrompt /\ prompt = "find" /\ prompt' = "find") => saved' = saved
  /\ FindKey(ESC) => (prompt' = "none" /\ ViewIs(E', saved))
  /\ (FindKey(ENTER) /\ prompt' = "none") =>
       /\ E'.cx = E.cx /\ E'.cy = E.cy
       /\ last_match # NO_MATCH => E.cy = last_match
C16_CancelRestores == [][C16_Step]_vars

\* Escape ended a session whose matches had moved the cursor to another row
\* and column, and the cursor and the offsets are back
C16_Witness ==
  /\ prompt = "none"
  /\ lastKey = ESC
  /\ prev.key = ESC
  /\ prev.match = prev.cy
  /\ prev.cy # E.cy
  /\ prev.cx # E.cx
  /\ E.rowoff > 0
  /\ E.coloff > 0

\* C17: while no search session is active, and when one has just been
\* opened, the search state is (no anchor, forward): Escape and Enter with a
\* non-empty query, the ways out of the search prompt, both reset it
C17_SearchLifecycle ==
  (prompt # "find" \/ lastKey = CTRL_F) =>
    (last_match = NO_MATCH /\ direction = 1)

\* Enter ended a session that had its anchor on a row below the first
C17_Witness ==
  /\ prompt = "none"
  /\ lastKey = ENTER
  /\ prev.key = ENTER
  /\ prev.match > 0
  /\ last_match = NO_MATCH

(***************************************************************************)
(* The key decoder (checked in ReadSpec)                                   *)
(***************************************************************************)
\* the bytes of the reads of a call, and whether each read gave a byte
BytesOf(rs) == [i \in 1..Len(rs) |-> rs[i].c]
AllBytes(rs) == \A i \in 1..Len(rs) : rs[i].nread = 1

\* the recognized sequences with their keys: ESC [ A/B/C/D, ESC [ H/F,
\* ESC O H/F, ESC [ digit ~
Recognized ==
  {<<(<<ESC, CH_LBRACKET, CH_A>>), ARROW_UP>>,
   <<(<<ESC, CH_LBRACKET, CH_B>>), ARROW_DOWN>>,
   <<(<<ESC, CH_LBRACKET, CH_C>>), ARROW_RIGHT>>,
   <<(<<ESC, CH_LBRACKET, CH_D>>), ARROW_LEFT>>,
   <<(<<ESC, CH_LBRACKET, CH_H>>), HOME_KEY>>,
   <<(<<ESC, CH_LBRACKET, CH_F>>), END_KEY>>,
   <<(<<ESC, CH_O, CH_H>>), HOME_KEY>>,
   <<(<<ESC, CH_O, CH_F>>), END_KEY>>,
   <<(<<ESC, CH_LBRACKET, CH_1, CH_TILDE>>), HOME_KEY>>,
   <<(<<ESC, CH_LBRACKET, CH_7, CH_TILDE>>), HOME_KEY>>,
   <<(<<ESC, CH_LBRACKET, CH_3, CH_TILDE>>), DEL_KEY>>,
   <<(<<ESC, CH_LBRACKET, CH_4, CH_TILDE>>), END_KEY>>,
   <<(<<ESC, CH_LBRACKET, CH_8, CH_TILDE>>), END_KEY>>,
   <<(<<ESC, CH_LBRACKET, CH_5, CH_TILDE>>), PAGE_UP>>,
   <<(<<ESC, CH_LBRACKET, CH_6, CH_TILDE>>), PAGE_DOWN>>}

C19_Fallback ==
  /\ (/\ readpc = "done"
      /\ reads[1].c = ESC
      /\ (~AllBytes(reads) \/ \A p \in Recognized : BytesOf(reads) # p[1]))
       => readKey = ESC
  /\ readpc = "died" => Len(reads) = 1
  /\ Len(reads) <= 4
  /\ readpc \in {"seq0", "seq1", "seq2"} => AllBytes(reads)
  /\ \A i \in 1..(Len(reads) - 1) : reads[i].nread = 1

\* ESC [ 5 was followed by a failed read: the decoder returned Escape
C19_Witness ==
  /\ readpc = "done"
  /\ Len(reads) = 4
  /\ BytesOf(SubSeq(reads, 1, 3)) = <<ESC, CH_LBRACKET, CH_5>>
  /\ reads[4].errno = "EIO"
  /\ readKey = ESC

(***************************************************************************)
(* The text of the document                                                *)
(***************************************************************************)
\* the number of bytes that come before row r (from 1) in the text of rows:
\* the sizes of the rows above it and one newline for each
RECURSIVE RowStart(_, _)
RowStart(rows, r) ==
  IF r <= 1 THEN 0 ELSE RowStart(rows, r - 1) + rows[r - 1].size + 1

\* t holds, row after row, the content of the row and then one newline
IsRowsText(t, rows) ==
  /\ Len(t) = RowStart(rows, Len(rows) + 1)
  /\ \A r \in 1..Len(rows) :
       /\ SubSeq(t, RowStart(rows, r) + 1, RowStart(rows, r) + rows[r].size)
            = rows[r].chars
       /\ t[RowStart(rows, r) + rows[r].size + 1] = LF

\* a step in which editorSave got the text of the document
SaveCalled == pc = "read" /\ prev'.buflen # -1

\* C20: the buffer rows-to-text returns is the contents of the rows in row
\* order, each followed by exactly one newline, the last row too; the
\* length it returns is the sum over the rows of (size + 1), 0 for a
\* document without rows; the rows are left as they were
C20_Step ==
  SaveCalled =>
    /\ IsRowsText(prev'.buf, E.row)
    /\ prev'.buflen = RowStart(E.row, E.numrows + 1)
    /\ prev'.buflen = Len(prev'.buf)
    /\ E.numrows = 0 => prev'.buflen = 0
    /\ E'.row = E.row
    /\ E'.numrows = E.numrows
C20_RowsToText == [][C20_Step]_vars

\* a save got the text of a document of two rows or more, one not empty
C20_Witness ==
  /\ prev.buflen > E.numrows
  /\ E.numrows >= 2
  /\ prev.buf[prev.buflen] = LF

(***************************************************************************)
(* The line prompt (checked in PromptSpec)                                 *)
(***************************************************************************)
\* a printable ASCII byte
Printable(c) == SPACE <= c /\ c <= 126

\* the buffer of a prompt after key c was typed: a delete key removes the
\* last byte, a printable ASCII byte is put at the end
Typed(b, c) ==
  IF c \in {BACKSPACE, CTRL_H, DEL_KEY}
  THEN (IF b = << >> THEN b ELSE SubSeq(b, 1, Len(b) - 1))
  ELSE IF Printable(c) THEN Append(b, c) ELSE b

\* a step of editorPrompt on key c
PromptKey(c) == InPrompt /\ lastKey' = c

\* C21: the prompt returns on Enter with a non-empty buffer, and returns
\* the buffer, or on Escape, and returns no value; on no other key, and not
\* on Enter with an empty buffer; each key that leaves the prompt open
\* leaves in the buffer the printable ASCII bytes typed so far, a delete
\* key (Backspace, Ctrl-H, Delete) having removed the last one, if any
C21_Step ==
  \A c \in TypedKeys :
    PromptKey(c) =>
      /\ prompt' = "none" <=> ((c = ENTER /\ buf # << >>) \/ c = ESC)
      /\ (prompt' = "none" /\ c = ENTER) => prev'.ret = buf
      /\ (prompt' = "none" /\ c = ESC) => prev'.ret = NULL
      /\ prompt' # "none" => buf' = Typed(buf, c)
C21_PromptResult == [][C21_Step]_vars

\* C22: a prompt with a callback calls it once for each key it reads, with
\* the buffer as the key left it and the key, the Enter that confirms and
\* the Escape that cancels included, and the call is over when the prompt
\* returns (the search state is reset by then); a prompt without a
\* callback calls nothing
C22_Step ==
  \A c \in TypedKeys :
    PromptKey(c) =>
      IF prompt = "find"
      THEN /\ prev'.calls =
                <<(<<IF prompt' = "none" THEN buf ELSE buf', c>>)>>
           /\ prompt' = "none" => (last_match' = NO_MATCH /\ direction' = 1)
      ELSE prev'.calls = << >>
C22_PromptCallback == [][C22_Step]_vars

\* the search prompt returned on Enter: the callback was called once, with
\* the text the prompt returned and the Enter key
C22_Witness ==
  /\ prompt = "none"
  /\ prev.key = ENTER
  /\ prev.ret # NULL
  /\ prev.calls = <<(<<prev.ret, ENTER>>)>>

(***************************************************************************)
(* The frame (checked in FrameSpec)                                        *)
(***************************************************************************)
\* the places of F where the bytes pat stand
Occ(F, pat) ==
  {i \in 1..(Len(F) - Len(pat) + 1) : SubSeq(F, i, i + Len(pat) - 1) = pat}

SetMax(S) == CHOOSE x \in S : \A y \in S : y <= x

\* F is a frame of the window of e: cursor-hide, cursor-home, screenrows
\* text lines that each end with erase-to-end-of-line (and the line break),
\* the status line in inverted video, the message line (erase-to-end-of-
\* line and the message, if any), the cursor position, cursor-show; and no
\* other escape sequence
IsFrame(F, e) ==
  LET lines == Occ(F, ERASE_LINE \o CRLF)
      status == SetMax(lines) + Len(ERASE_LINE \o CRLF)
      ends == Occ(F, INVERT_OFF \o CRLF)
      message == SetMax(ends) + Len(INVERT_OFF \o CRLF)
      pos == <<ESC, CH_LBRACKET>> \o DecStr(e.cy - e.rowoff + 1) \o <<59>>
               \o DecStr(e.rx - e.coloff + 1) \o <<CH_H>>
  IN /\ SubSeq(F, 1, 9) = HIDE_CURSOR \o CURSOR_HOME
     /\ Cardinality(lines) = e.screenrows
     /\ \A i \in lines : i >= 10
     /\ Occ(F, INVERT_ON) = {status}
     /\ Cardinality(ends) = 1
     /\ message > status
     /\ Occ(F, ERASE_LINE) = lines \cup {message}
     /\ Occ(F, pos) = {Len(F) - Len(SHOW_CURSOR) - Len(pos) + 1}
     /\ Len(F) - Len(SHOW_CURSOR) - Len(pos) + 1 >= message + Len(ERASE_LINE)
     /\ Occ(F, SHOW_CURSOR) = {Len(F) - Len(SHOW_CURSOR) + 1}
     /\ Cardinality(Occ(F, <<ESC>>)) = e.screenrows + 7

ReadFailed ==
  /\ Len(reads') = Len(reads) + 1 \/ (readpc = "first" /\ Len(reads') = 1)
  /\ reads'[Len(reads')].nread = -1
  /\ reads'[Len(reads')].errno # "EAGAIN"

\* C24: each read of the key decoder that fails with another error than
\* EAGAIN, the reads after an escape byte too, ends the process, and the
\* terminal is back in its original mode when the process has ended
C24_Step ==
  /\ ReadFailed => (pc' = "exited" /\ readpc' = "died")
  /\ pc' = "exited" => term' = "orig"
C24_FatalRead == [][C24_Step]_vars

(***************************************************************************)
(* Saving                                                                  *)
(***************************************************************************)
\* a step in which editorSave ran with a file name (Ctrl-S with a file
\* name, or Enter in the save-as prompt)
SaveRan ==
  \/ InMain /\ lastKey' = CTRL_S /\ prompt' = "none"
  \/ InPrompt /\ prompt = "save" /\ prompt' = "none" /\ E'.filename # NULL

\* a step in which the save-as prompt was cancelled
SaveCancelled ==
  InPrompt /\ prompt = "save" /\ prompt' = "none" /\ E'.filename = NULL

\* the rows, the cursor and the window offsets of e and f are the same
SameView(e, f) ==
  /\ e.row = f.row /\ e.numrows = f.numrows
  /\ e.cx = f.cx /\ e.cy = f.cy
  /\ e.rowoff = f.rowoff /\ e.coloff = f.coloff

\* C25: a save that fails (open, ftruncate or write fails) leaves the
\* process running, the rows, the cursor and the window offsets as they
\* were and dirty at its value, and sets a status message that reports the
\* error; a save-as prompt cancelled with Escape writes nothing and leaves
\* the file name unset and dirty as it was; dirty becomes 0 in a save only
\* when the whole text was written
C25_Step ==
  /\ (SaveRan /\ prev'.wrote # "all") =>
       /\ pc' # "exited"
       /\ SameView(E', E)
       /\ E'.dirty = E.dirty
       /\ prev'.statusmsg = "Can't save! I/O error: %s"
  /\ SaveCancelled =>
       /\ prev'.wrote = "nothing"
       /\ E'.filename = NULL
       /\ E'.dirty = E.dirty
  /\ (pc = "read" /\ E.dirty # 0 /\ E'.dirty = 0) =>
       /\ SaveRan
       /\ prev'.wrote = "all"
       /\ prev'.buf = editorRowsToString(E).buf
C25_SaveFailure == [][C25_Step]_vars

\* a save failed at write() on a document with unsaved changes, which is
\* still marked as changed
C25_Witness ==
  /\ prev.statusmsg = "Can't save! I/O error: %s"
  /\ prev.wrote = "part"
  /\ E.dirty > 0
  /\ pc = "refresh"

(***************************************************************************)
(* Tab expansion (checked in RowSpec)                                      *)
(***************************************************************************)
\* the render column at which byte j (from 1) of chars starts, a tab
\* reaching to the next multiple of the tab stop
RECURSIVE ColOf(_, _)
ColOf(chars, j) ==
  IF j <= 1 THEN 0
  ELSE LET r == ColOf(chars, j - 1)
       IN IF chars[j - 1] = TAB
          THEN r + (KILO_TAB_STOP - (r % KILO_TAB_STOP))
          ELSE r + 1

\* render holds each byte of chars but the tabs at its column, and for a
\* tab at column r exactly KILO_TAB_STOP - (r mod KILO_TAB_STOP) spaces
TabRule(row) ==
  /\ row.rsize = ColOf(row.chars, row.size + 1)
  /\ Len(row.render) = row.rsize
  /\ \A j \in 1..row.size :
       LET r == ColOf(row.chars, j)
           n == ColOf(row.chars, j + 1) - r
       IN IF row.chars[j] = TAB
          THEN /\ n = KILO_TAB_STOP - (r % KILO_TAB_STOP)
               /\ 1 <= n /\ n <= KILO_TAB_STOP
               /\ \A i \in 1..n : row.render[r + i] = SPACE
          ELSE n = 1 /\ row.render[r + 1] = row.chars[j]

\* C26: regenerate-render copies each byte that is no tab and puts for a
\* tab at render column r exactly tabstop - (r mod tabstop) spaces, never
\* none and never more than tabstop = 8; a row that is one tab renders to 8
\* spaces, and a tab at render column 6 becomes 2 spaces, the next byte
\* standing at render column 8
C26_TabExpansion ==
  pc = "rowdone" =>
    LET row == E.row[1]
    IN /\ TabRule(row)
       /\ row.chars = <<TAB>> => row.render = [i \in 1..8 |-> SPACE]
       /\ (row.size >= 8 /\ ColOf(row.chars, 7) = 6 /\ row.chars[7] = TAB) =>
            /\ row.render[7] = SPACE /\ row.render[8] = SPACE
            /\ row.render[6] # SPACE
            /\ row.chars[8] # TAB => row.render[9] = row.chars[8]

\* the row made of six letters, a tab and a letter: the letter after the
\* tab stands at render column 8
C26_Witness ==
  /\ pc = "rowdone"
  /\ E.row[1].chars = <<CH_a, CH_a, CH_a, CH_a, CH_a, CH_a, TAB, CH_a>>
  /\ E.row[1].rsize = 9
  /\ E.row[1].render[9] = CH_a

(***************************************************************************)
(* Cursor movement                                                         *)
(***************************************************************************)
\* the length of row cy of e: 0 for the virtual line
RowLen(e, cy) == IF cy < e.numrows THEN e.row[cy + 1].size ELSE 0

\* key c was handled in the main loop in this step
MainKey(c) == InMain /\ lastKey' = c

\* C27: ArrowLeft with cx > 0 decrements cx, at cx = 0 of a row cy > 0 it
\* goes to the end of row cy - 1, at (0, 0) it does nothing; ArrowRight
\* with cx below the row length increments cx, at the end of a row it goes
\* to (0, cy + 1), on the virtual line it does nothing; neither changes
\* the rows, dirty, rowoff or coloff
C27_Step ==
  /\ MainKey(ARROW_LEFT) =>
       IF E.cx > 0 THEN E'.cx = E.cx - 1 /\ E'.cy = E.cy
       ELSE IF E.cy > 0
       THEN E'.cy = E.cy - 1 /\ E'.cx = RowLen(E, E.cy - 1)
       ELSE E'.cx = 0 /\ E'.cy = 0
  /\ MainKey(ARROW_RIGHT) =>
       IF E.cy = E.numrows THEN E'.cx = E.cx /\ E'.cy = E.cy
       ELSE IF E.cx < RowLen(E, E.cy)
       THEN E'.cx = E.cx + 1 /\ E'.cy = E.cy
       ELSE E'.cx = 0 /\ E'.cy = E.cy + 1
  /\ (MainKey(ARROW_LEFT) \/ MainKey(ARROW_RIGHT)) =>
       /\ E'.row = E.row /\ E'.numrows = E.numrows
       /\ E'.dirty = E.dirty
       /\ E'.rowoff = E.rowoff /\ E'.coloff = E.coloff
C27_Horizontal == [][C27_Step]_vars

\* ArrowRight at the end of a row has gone to the start of the next row
C27_Witness ==
  /\ pc = "refresh"
  /\ lastKey = ARROW_RIGHT
  /\ E.cx = 0
  /\ 1 <= E.cy /\ E.cy < E.numrows

\* C28: ArrowUp sets cy to max(cy - 1, 0) and ArrowDown to
\* min(cy + 1, numrows); then cx is the smaller of the old cx and the
\* length of the new row (0 for the virtual line): a vertical move never
\* increases cx
C28_Step ==
  /\ MainKey(ARROW_UP) => E'.cy = (IF E.cy - 1 > 0 THEN E.cy - 1 ELSE 0)
  /\ MainKey(ARROW_DOWN) =>
       E'.cy = (IF E.cy + 1 < E.numrows THEN E.cy + 1 ELSE E.numrows)
  /\ (MainKey(ARROW_UP) \/ MainKey(ARROW_DOWN)) =>
       /\ E'.cx = (IF E.cx < RowLen(E, E'.cy) THEN E.cx ELSE RowLen(E, E'.cy))
       /\ E'.cx <= E.cx
       /\ E'.row = E.row /\ E'.numrows = E.numrows
C28_Vertical == [][C28_Step]_vars

\* ArrowUp has gone from a column right of 0 (the last frame was scrolled
\* to it: coloff > 0) onto an empty row: cx is the length of that row
C28_Witness ==
  /\ pc = "refresh"
  /\ lastKey = ARROW_UP
  /\ E.cy + 1 < E.numrows
  /\ RowLen(E, E.cy) = 0
  /\ E.cx = 0
  /\ E.coloff > 0

SetMin(S) == CHOOSE x \in S : \A y \in S : x <= y
\* the row a line-up move from row cy of e ends on, and a line-down move
UpFrom(e, cy) == IF cy > 0 THEN cy - 1 ELSE 0
DownFrom(e, cy) == IF cy < e.numrows THEN cy + 1 ELSE e.numrows
\* the rows k = 1 .. times line moves end on, from row cy
RECURSIVE RowsUp(_, _, _)
RowsUp(e, cy, times) ==
  IF times = 0 THEN {}
  ELSE {UpFrom(e, cy)} \cup RowsUp(e, UpFrom(e, cy), times - 1)
RECURSIVE RowsDown(_, _, _)
RowsDown(e, cy, times) ==
  IF times = 0 THEN {}
  ELSE {DownFrom(e, cy)} \cup RowsDown(e, DownFrom(e, cy), times - 1)
\* the bottom row of the window, or the virtual line if that is above it
Bottom(e) ==
  IF e.rowoff + e.screenrows - 1 < e.numrows
  THEN e.rowoff + e.screenrows - 1 ELSE e.numrows

\* C29: PageUp moves screenrows lines up from row rowoff and PageDown
\* screenrows lines down from min(rowoff + screenrows - 1, numrows): cy
\* ends at max(0, rowoff - screenrows), resp. at min(numrows, min(rowoff +
\* screenrows - 1, numrows) + screenrows), and cx is the minimum of the old
\* cx and the lengths of all the rows the moves ended on
C29_Step ==
  /\ MainKey(PAGE_UP) =>
       /\ E'.cy = SetMax({0, E.rowoff - E.screenrows})
       /\ E'.cx = SetMin({E.cx} \cup
                    {RowLen(E, r) : r \in RowsUp(E, E.rowoff, E.screenrows)})
  /\ MainKey(PAGE_DOWN) =>
       /\ E'.cy = SetMin({E.numrows, Bottom(E) + E.screenrows})
       /\ E'.cx = SetMin({E.cx} \cup
                    {RowLen(E, r) : r \in RowsDown(E, Bottom(E), E.screenrows)})
  /\ (MainKey(PAGE_UP) \/ MainKey(PAGE_DOWN)) =>
       /\ E'.row = E.row /\ E'.numrows = E.numrows
       /\ E'.rowoff = E.rowoff
C29_Page == [][C29_Step]_vars

\* a page key has moved the cursor from a column right of 0 over an empty
\* row onto a row that is not empty: cx is 0 all the same
C29_Witness ==
  /\ pc = "refresh"
  /\ lastKey \in {PAGE_UP, PAGE_DOWN}
  /\ prev.key = lastKey
  /\ prev.cx > 0
  /\ E.cx = 0
  /\ RowLen(E, E.cy) > 0

\* the step leaves the rows, the cursor and dirty as they were, and the
\* editor running
Untouched ==
  /\ E'.row = E.row /\ E'.numrows = E.numrows
  /\ E'.cx = E.cx /\ E'.cy = E.cy
  /\ E'.dirty = E.dirty
  /\ pc' # "exited"

\* C30: editorDelChar with the cursor on the line after the last row or at
\* (0, 0), ArrowLeft at (0, 0), and every step of a search in a document
\* without rows leave the rows, numrows, cx, cy and dirty unchanged, and
\* the editor goes on
C30_Step ==
  /\ ((MainKey(BACKSPACE) \/ MainKey(CTRL_H) \/ MainKey(DEL_KEY))
        /\ E.cy = E.numrows) => Untouched
  /\ ((MainKey(BACKSPACE) \/ MainKey(CTRL_H)) /\ E.cx = 0 /\ E.cy = 0)
       => Untouched
  /\ (MainKey(ARROW_LEFT) /\ E.cx = 0 /\ E.cy = 0) => Untouched
  /\ ((MainKey(CTRL_F) \/ prompt = "find") /\ E.numrows = 0) => Untouched
C30_NoOps == [][C30_Step]_vars

\* Backspace was typed on the line after the last row of a document with
\* rows, and the cursor is still there
C30_Witness ==
  /\ pc = "refresh"
  /\ lastKey = BACKSPACE
  /\ E.numrows > 0
  /\ E.cy = E.numrows

(***************************************************************************)
(* Insert-newline                                                          *)
(***************************************************************************)
\* C31: insert-newline adds exactly one row and leaves the cursor at
\* (0, old cy + 1), on the virtual line too; with cx = 0 the new row cy is
\* empty and the old row cy, if any, is row cy + 1 unchanged; with cx > 0
\* row cy is content[0..cx) and row cy + 1 is content[cx..end); the rows
\* above and below are the same rows in the same order
C31_Step ==
  MainKey(ENTER) =>
    LET cy == E.cy
        cx == E.cx
    IN /\ E'.numrows = E.numrows + 1
       /\ Len(E'.row) = Len(E.row) + 1
       /\ E'.cx = 0 /\ E'.cy = cy + 1
       /\ \A r \in 1..cy : E'.row[r] = E.row[r]
       /\ IF cx = 0
          THEN /\ E'.row[cy + 1].chars = << >>
               /\ E'.row[cy + 1].size = 0
               /\ \A r \in (cy + 1)..Len(E.row) : E'.row[r + 1] = E.row[r]
          ELSE /\ cy < E.numrows
               /\ E'.row[cy + 1].chars = SubSeq(E.row[cy + 1].chars, 1, cx)
               /\ E'.row[cy + 2].chars =
                    SubSeq(E.row[cy + 1].chars, cx + 1, E.row[cy + 1].size)
               /\ \A r \in (cy + 2)..Len(E.row) : E'.row[r + 1] = E.row[r]
C31_InsertNewline == [][C31_Step]_vars

\* Enter was typed at the start of a row that is not empty and has a row
\* above it: the row moved down by one, below a new empty row
C31_Witness ==
  /\ pc = "refresh"
  /\ lastKey = ENTER
  /\ prev.key = ENTER
  /\ prev.cx = 0
  /\ prev.cy > 0
  /\ prev.cy < Len(prev.row)
  /\ prev.row[prev.cy + 1].size > 0
  /\ E.row[prev.cy + 1].size = 0
  /\ E.row[prev.cy + 2] = prev.row[prev.cy + 1]

(***************************************************************************)
(* The cursor and the render column (checked in RowSpec)                   *)
(***************************************************************************)
\* the row of RowSpec
TheRow == E.row[1]

\* C32 as stated: editorRowRxToCx(row, rx) is the smallest cx whose
\* editorRowCxToRx(row, cx) exceeds rx, and the row length when rx exceeds
\* the rendered width
C32_Original ==
  pc = "found" =>
    LET rx == prev.rx
        over == {c \in 0..TheRow.size : editorRowCxToRx(TheRow, c) > rx}
    IN /\ over # {} => E.cx = SetMin(over)
       /\ rx > TheRow.rsize => E.cx = TheRow.size

\* C32: editorRowRxToCx(row, rx) is the index of the byte whose render
\* columns hold rx, that is the smallest cx with editorRowCxToRx(row,
\* cx + 1) > rx, which is the largest cx with editorRowCxToRx(row, cx) <= rx;
\* it is the row length when rx is the rendered width or more
C32_RenderToCursor ==
  pc = "found" =>
    LET rx == prev.rx
        holds == {c \in 0..(TheRow.size - 1) :
                    editorRowCxToRx(TheRow, c + 1) > rx}
        upto == {c \in 0..TheRow.size : editorRowCxToRx(TheRow, c) <= rx}
    IN /\ rx < TheRow.rsize =>
            /\ holds # {}
            /\ E.cx = SetMin(holds)
            /\ E.cx = SetMax(upto)
       /\ rx >= TheRow.rsize => E.cx = TheRow.size

\* a column inside a tab that follows a letter: the cursor is on the tab
C32_Witness ==
  /\ pc = "found"
  /\ TheRow.size >= 3
  /\ TheRow.chars[1] = CH_a
  /\ TheRow.chars[2] = TAB
  /\ prev.rx = 4
  /\ E.cx = 1

\* the row editorUpdateRow makes of the first cx bytes of row
PrefixRow(row, cx) ==
  editorUpdateRow([size |-> cx, chars |-> SubSeq(row.chars, 1, cx),
                   rsize |-> 0, render |-> << >>])

\* C40: for every cx in 0..size editorRowCxToRx(row, cx) is the length of
\* the tab expansion of the first cx bytes: it is rsize at cx = size, it
\* grows with cx, and a byte that is no tab stands in render at the column
\* of its index
C40_CursorColumn ==
  pc = "scrolled" =>
    /\ E.rx = PrefixRow(TheRow, E.cx).rsize
    /\ E.rx = Len(PrefixRow(TheRow, E.cx).render)
    /\ E.cx = TheRow.size => E.rx = TheRow.rsize
    /\ E.cx < TheRow.size =>
         /\ E.rx < editorRowCxToRx(TheRow, E.cx + 1)
         /\ TheRow.chars[E.cx + 1] # TAB =>
              TheRow.render[E.rx + 1] = TheRow.chars[E.cx + 1]

\* the cursor is on the letter after a letter and a tab: its column is 8,
\* where render holds the letter
C40_Witness ==
  /\ pc = "scrolled"
  /\ TheRow.size >= 3
  /\ TheRow.chars[1] = CH_a
  /\ TheRow.chars[2] = TAB
  /\ TheRow.chars[3] = CH_a
  /\ E.cx = 2
  /\ E.rx = 8
  /\ TheRow.render[9] = CH_a

(***************************************************************************)
(* The lookahead of the key decoder (checked in ReadSpec)                  *)
(***************************************************************************)
\* the reads of this call of editorReadKey after the read that gave the
\* escape byte
Lookahead == IF reads # << >> /\ reads[1] = Got(ESC) THEN Len(reads) - 1 ELSE 0

\* C33 as stated: after an escape byte the decoder reads at most two more
\* bytes before it returns
C33_Original == Lookahead <= 2

\* C33: after an escape byte the decoder reads at most three more bytes
\* before it returns, whatever the input is, and a third one only after
\* '[' and a digit; after any other first byte it reads none
C33_Lookahead ==
  /\ Lookahead <= 3
  /\ Lookahead = 3 =>
       /\ reads[2] = Got(CH_LBRACKET)
       /\ reads[3].nread = 1 /\ IsDigit(reads[3].c)
       /\ readpc = "done"
  /\ (reads # << >> /\ reads[1] # Got(ESC)) => Len(reads) = 1

\* ESC [ 5 was followed by a letter: the decoder has read three bytes after
\* the escape byte and returned Escape
C33_Witness ==
  /\ readpc = "done"
  /\ Lookahead = 3
  /\ AllBytes(reads)
  /\ BytesOf(reads) = <<ESC, CH_LBRACKET, CH_5, CH_a>>
  /\ readKey = ESC

(***************************************************************************)
(* Where a match puts the cursor and the window (checked in FindSpec)      *)
(***************************************************************************)
\* the search prompt has read a key other than Enter and Escape, and a row
\* holds the query: the match step finds it
Matches ==
  /\ InPrompt /\ prompt = "find"
  /\ lastKey' \notin {NO_KEY, ENTER, ESC}
  /\ ~NoRowHolds(E.row, buf')

\* the match step of the last key found the query, and the frame is due
Matched ==
  /\ pc = "refresh" /\ prompt = "find"
  /\ lastKey \notin {NO_KEY, CTRL_F, ENTER, ESC}
  /\ ~NoRowHolds(E.row, buf)

\* C34: a match step that finds the query at offset o of the render of row
\* r sets cy = r, cx = editorRowRxToCx(row r, o), last_match = r and rowoff
\* = numrows; the editorScroll of the next refresh sets rowoff = r, so the
\* row of the match is the first row of the screen
C34_Step ==
  /\ Matches =>
       LET r == last_match'
       IN /\ 0 <= r /\ r < E.numrows
          /\ Contains(E.row[r + 1].render, buf')
          /\ E'.cy = r
          /\ E'.cx = editorRowRxToCx(E.row[r + 1],
                                     FirstAt(E.row[r + 1].render, buf'))
          /\ E'.rowoff = E.numrows
          /\ pc' = "refresh"
  /\ Matched =>
       /\ E.cy = last_match /\ E.rowoff = E.numrows
       /\ pc' = "read" =>
            /\ E'.rowoff = last_match
            /\ E'.cy = last_match /\ E'.cx = E.cx
            /\ last_match' = last_match
C34_MatchPlacement == [][C34_Step]_vars

\* the query was found in the second row, right of its first column; the
\* frame is due and rowoff is numrows
C34_Witness ==
  /\ Matched
  /\ lastKey = CH_a
  /\ E.numrows >= 2
  /\ last_match = 1
  /\ E.cy = 1
  /\ E.cx > 0
  /\ E.rowoff = E.numrows

(***************************************************************************)
(* Who writes the window offsets                                           *)
(***************************************************************************)
\* the step changes rowoff or coloff
OffsetsChange == E'.rowoff # E.rowoff \/ E'.coloff # E.coloff

\* C35: rowoff and coloff change only in editorScroll (the refresh) and in
\* the search: a match sets rowoff to numrows, and the end of the search
\* prompt puts back the offsets saved when it was opened.  No key of the main
\* loop (typing, Enter, the delete keys, the cursor, Home, End and page
\* keys, Ctrl-S, Ctrl-Q, Ctrl-F) and no step of the save prompt changes
\* them
C35_Step ==
  /\ OffsetsChange =>
       \/ pc = "refresh" /\ pc' = "read" /\ E' = editorScroll(E)
       \/ /\ InPrompt /\ prompt = "find" /\ prompt' = "find"
          /\ E'.rowoff = E.numrows /\ E'.coloff = E.coloff
          /\ E'.cy = last_match'
       \/ /\ InPrompt /\ prompt = "find" /\ prompt' = "none"
          /\ E'.rowoff = saved.rowoff /\ E'.coloff = saved.coloff
  /\ (InMain \/ pc = "start" \/ (InPrompt /\ prompt = "save")) =>
       ~OffsetsChange
C35_OffsetsOwned == [][C35_Step]_vars

\* Enter has put the cursor below the window, and the offsets are those of
\* the last frame: the refresh is still to come
C35_Witness ==
  /\ pc = "refresh"
  /\ lastKey = ENTER
  /\ prompt = "none"
  /\ E.cy >= E.rowoff + E.screenrows
  /\ E.coloff > 0

(***************************************************************************)
(* One frame for each key (checked in CycleSpec, where prev.writes holds   *)
(* the frames written since the last key was read)                         *)
(***************************************************************************)
\* a key has been read and handled in this step, in the main loop or in a
\* prompt
KeyStep == pc = "read" /\ lastKey' # NO_KEY

\* C36: between two key reads there is exactly one editorRefreshScreen, in
\* the main loop, in a prompt, and when a prompt opens or ends: every key
\* step ends with the refresh due and no frame written, the refresh is the
\* only step then, it runs editorScroll and composes the frame of the
\* scrolled state, it changes nothing else of what the key left, and only
\* then is the next key read
C36_Step ==
  /\ pc = "read" => (KeyStep /\ pc' = "refresh" /\ prev'.writes = << >>)
  /\ pc = "refresh" =>
       /\ prev.writes = << >>
       /\ pc' = "read"
       /\ E' = editorScroll(E)
       /\ \E statusmsg \in StatusMsgs, fresh \in BOOLEAN :
            prev'.writes = editorRefreshScreen(E', statusmsg, fresh)
       /\ Len(prev'.writes) = 1
       /\ UNCHANGED <<quit_times, last_match, direction, prompt, buf, saved,
                      mutated, term>>
       /\ E'.row = E.row /\ E'.cx = E.cx /\ E'.cy = E.cy
       /\ E'.dirty = E.dirty /\ E'.filename = E.filename
C36_OneCycle == [][C36_Step]_vars

\* the search prompt has just been opened and its first frame written: one
\* frame since Ctrl-F was read
C36_Witness ==
  /\ pc = "read"
  /\ prompt = "find"
  /\ buf = << >>
  /\ Len(prev.writes) = 1
  /\ prev.key = NO_KEY
  /\ E.numrows > 0

(***************************************************************************)
(* The Delete key (checked in Spec)                                        *)
(***************************************************************************)
\* row without the byte at index at (0-based)
WithoutByte(chars, at) ==
  SubSeq(chars, 1, at) \o SubSeq(chars, at + 2, Len(chars))

\* C38: DEL_KEY leaves cx and cy as they were; with a byte at cx it removes
\* that byte, at the end of a row that is not the last it appends the next
\* row and removes it, and at the end of the last row and on the line after
\* the last row it changes neither the rows nor dirty
C38_Step ==
  MainKey(DEL_KEY) =>
    LET cy == E.cy
        cx == E.cx
    IN /\ E'.cx = cx /\ E'.cy = cy
       /\ IF cy < E.numrows /\ cx < RowLen(E, cy)
          THEN /\ Len(E'.row) = Len(E.row)
               /\ ContentsOf(E'.row) =
                    [ContentsOf(E.row) EXCEPT
                       ![cy + 1] = WithoutByte(E.row[cy + 1].chars, cx)]
          ELSE IF cy + 1 < E.numrows
          THEN /\ Len(E'.row) = Len(E.row) - 1
               /\ ContentsOf(E'.row) =
                    [r \in 1..(Len(E.row) - 1) |->
                       IF r < cy + 1 THEN E.row[r].chars
                       ELSE IF r = cy + 1
                       THEN E.row[r].chars \o E.row[r + 1].chars
                       ELSE E.row[r + 1].chars]
          ELSE E'.row = E.row /\ E'.dirty = E.dirty
C38_ForwardDelete == [][C38_Step]_vars

(***************************************************************************)
(* A search changes no row (checked in FindSpec)                           *)
(***************************************************************************)
\* E without the cursor, the offsets and the column rx that editorScroll
\* derives from the cursor in every refresh
Document(e) ==
  [e EXCEPT !.cx = 0, !.cy = 0, !.rx = 0, !.rowoff = 0, !.coloff = 0]

\* C39: every step of a search, from Ctrl-F to the Enter or Escape that ends
\* it and for every key typed between, leaves the rows with their chars and
\* render, numrows, dirty and the file name as they were; of E only cx, cy,
\* rowoff, coloff (and rx with them) change, and when the prompt has ended
\* the statics of the search are back at -1 and 1
C39_Step ==
  (prompt = "find" \/ prompt' = "find") =>
    /\ Document(E') = Document(E)
    /\ prompt' = "none" => (last_match' = -1 /\ direction' = 1)
C39_ReadOnly == [][C39_Step]_vars

\* a search has ended with Enter with the cursor in a row after the first,
\* which the window begins with
C39_Witness ==
  /\ prompt = "none"
  /\ pc = "refresh"
  /\ lastKey = ENTER
  /\ prev.key = ENTER
  /\ prev.cy > 0
  /\ E.cy = prev.cy
  /\ E.rowoff = E.cy
  /\ E.numrows > 1

(***************************************************************************)
(* The indices the operations use (checked in KeysSpec).  Each predicate   *)
(* says of one operation, in the state e it is called in, that the indices *)
(* it uses on E.row are in [0, numrows) and the ones it uses on the        *)
(* content of a row are in [0, size].                                      *)
(***************************************************************************)
\* i is the index of a row of e
InRows(e, i) == 0 <= i /\ i < e.numrows /\ i < Len(e.row)

\* at is an index into the content of row i of e, its end included
InContent(e, i, at) == InRows(e, i) /\ 0 <= at /\ at <= e.row[i + 1].size

\* editorInsertChar: &E.row[E.cy] after the row it may append, and
\* editorRowInsertChar(row, E.cx, c)
editorInsertChar_safe(e) ==
  IF e.cy = e.numrows
  THEN e.cy >= 0 /\ e.cx = 0
  ELSE InContent(e, e.cy, e.cx)

\* editorInsertNewline: editorInsertRow(E.cy, ...) at cx = 0, else
\* &E.row[E.cy], &row->chars[E.cx] and row->chars[row->size] with size = cx
editorInsertNewline_safe(e) ==
  IF e.cx = 0
  THEN 0 <= e.cy /\ e.cy <= e.numrows
  ELSE InContent(e, e.cy, e.cx)

\* editorDelChar: &E.row[E.cy], then editorRowDelChar(row, E.cx - 1) or
\* E.row[E.cy - 1]
editorDelChar_safe(e) ==
  \/ e.cy = e.numrows
  \/ e.cx = 0 /\ e.cy = 0
  \/ /\ InContent(e, e.cy, e.cx)
     /\ e.cx = 0 => InRows(e, e.cy - 1)

\* editorMoveCursor: &E.row[E.cy] if E.cy < E.numrows, before and after the
\* move, and E.row[E.cy].size after E.cy-- in the ARROW_LEFT case
editorMoveCursor_safe(e, key) ==
  /\ e.cy >= 0
  /\ e.cy < e.numrows => InRows(e, e.cy)
  /\ (key = ARROW_LEFT /\ e.cx = 0 /\ e.cy > 0) => InRows(e, e.cy - 1)
  /\ LET e1 == editorMoveCursor(e, key)
     IN e1.cy >= 0 /\ (e1.cy < e1.numrows => InContent(e1, e1.cy, e1.cx))

\* the while (times--) loop of the PAGE keys: every editorMoveCursor in it
RECURSIVE PageLoop_safe(_, _, _)
PageLoop_safe(e, key, times) ==
  \/ times = 0
  \/ /\ editorMoveCursor_safe(e, key)
     /\ PageLoop_safe(editorMoveCursor(e, key), key, times - 1)

\* the PAGE_UP / PAGE_DOWN case: the row E.cy is set to, and the loop
PageKey_safe(e, c) ==
  LET e1 == IF c = PAGE_UP
            THEN [e EXCEPT !.cy = e.rowoff]
            ELSE LET cy1 == e.rowoff + e.screenrows - 1
                 IN [e EXCEPT !.cy = IF cy1 > e.numrows THEN e.numrows ELSE cy1]
  IN /\ 0 <= e1.cy /\ e1.cy <= e1.numrows
     /\ PageLoop_safe(e1, IF c = PAGE_UP THEN ARROW_UP ELSE ARROW_DOWN,
                      e.screenrows)

\* the END_KEY case: E.row[E.cy].size if E.cy < E.numrows
EndKey_safe(e) == e.cy >= 0 /\ (e.cy < e.numrows => InRows(e, e.cy))

\* editorScroll: editorRowCxToRx(&E.row[E.cy], E.cx) if E.cy < E.numrows,
\* which reads chars[0 .. cx - 1]
editorScroll_safe(e) ==
  e.cy >= 0 /\ (e.cy < e.numrows => InContent(e, e.cy, e.cx))

\* the for loop of editorFindCallback: &E.row[current] of every round, and
\* on a match the column match - row->render handed to editorRowRxToCx and
\* the cx it returns
RECURSIVE FindLoop_safe(_, _, _, _)
FindLoop_safe(s, query, i, current) ==
  \/ i >= s.E.numrows
  \/ LET c1 == current + s.direction
         c2 == IF c1 = -1 THEN s.E.numrows - 1
               ELSE IF c1 = s.E.numrows THEN 0 ELSE c1
     IN /\ InRows(s.E, c2)
        /\ LET row == s.E.row[c2 + 1]
               match == strstr(row.render, query)
           IN IF match # NO_MATCH
              THEN /\ 0 <= match /\ match <= row.rsize
                   /\ InContent(s.E, c2, editorRowRxToCx(row, match))
              ELSE FindLoop_safe(s, query, i + 1, c2)

\* editorFindCallback(query, key) on the editor state and the statics
editorFindCallback_safe(query, key) ==
  \/ key = ENTER \/ key = ESC
  \/ LET s == [E |-> E, last_match |-> last_match, direction |-> direction]
         s1 == IF key = ARROW_RIGHT \/ ARROW_DOWN # 0
               THEN [s EXCEPT !.direction = 1]
               ELSE IF key = ARROW_LEFT \/ key = ARROW_UP
               THEN [s EXCEPT !.direction = -1]
               ELSE [s EXCEPT !.last_match = -1, !.direction = 1]
         s2 == IF s1.last_match = -1 THEN [s1 EXCEPT !.direction = 1] ELSE s1
     IN FindLoop_safe(s2, query, 0, s2.last_match)

\* the calls <<key, query>> of the callback that the next key of the prompt
\* can lead to: a byte is appended to the buffer first, a delete key drops
\* the last byte first, every other key leaves the buffer
NextCalls ==
  {<<c, Append(buf, IntToChar(c))>> : c \in {k \in Chars : k >= SPACE}}
    \cup {<<c, SubSeq(buf, 1, Len(buf) - 1)>> :
            c \in {BACKSPACE, CTRL_H, DEL_KEY}}
    \cup {<<c, buf>> : c \in {ENTER, ESC, CTRL_L, ARROW_LEFT, ARROW_RIGHT,
                               ARROW_UP, ARROW_DOWN}}

\* C37: in every reachable state, whatever key comes next, the operations
\* it runs use only row indices in [0, numrows) and content indices in
\* [0, size]: the insert, Enter and the delete keys, the arrows, End and the
\* PAGE keys in the main loop, editorFindCallback for every key and buffer
\* the search prompt can hand it next, and editorScroll in the refresh
C37_IndexSafe ==
  /\ pc = "refresh" => editorScroll_safe(E)
  /\ InMain =>
       /\ editorInsertChar_safe(E)
       /\ editorInsertNewline_safe(E)
       /\ editorDelChar_safe(E)
       /\ editorDelChar_safe(editorMoveCursor(E, ARROW_RIGHT))
       /\ \A key \in {ARROW_LEFT, ARROW_RIGHT, ARROW_UP, ARROW_DOWN} :
            editorMoveCursor_safe(E, key)
       /\ EndKey_safe(E)
       /\ PageKey_safe(E, PAGE_UP) /\ PageKey_safe(E, PAGE_DOWN)
  /\ (InPrompt /\ prompt = "find") =>
       \A call \in NextCalls : editorFindCallback_safe(call[2], call[1])

\* the cursor is on the line after the last row of a changed document that
\* the window has scrolled into, and a key is due
C37_Witness ==
  /\ InMain
  /\ E.numrows > 0
  /\ E.cy = E.numrows
  /\ E.dirty > 0
  /\ E.rowoff > 0

====
